---- MODULE Spec2Model ----
(***************************************************************************)
(* Model of the order-matching and orderbook-replication core of           *)
(* mm2src/lp_ordermatch.rs and of the operation lifecycle of               *)
(* mm2src/coins/tezos.rs.                                                  *)
(*                                                                         *)
(* The specifications of this module share its variables:                  *)
(*   SpecFn        - the pure functions (match_with_request, the           *)
(*                   confirmation settings negotiation) on inputs of Init; *)
(*   SpecBook      - the Orderbook structure under gossip, sync and purge; *)
(*   SpecHistory   - one pubkey's tries and its TrieDiffHistory;           *)
(*   SpecPurge     - keep-alive sync followed by the purge of the loop;    *)
(*   Spec          - the maker/taker handshake of one node;                *)
(*   SpecPersist   - Spec with the cancel RPCs, balance updates, restart;  *)
(*   SpecTezos     - sign_and_send_operation and withdraw under            *)
(*                   COUNTER_LOCK;                                         *)
(*   SpecWait      - wait_for_operation_confirmation, wait_for_tx_spend,   *)
(*                   SpecWaitLive with fairness of their steps;            *)
(*   SpecAllowance - check_and_update_allowance.                           *)
(***************************************************************************)
EXTENDS Integers, Sequences, FiniteSets, TLC

VARIABLES
    fnIn,        \* SpecFn: the input the function is applied to
    fnOut,       \* SpecFn: the result, None until the function was applied
    orderbook,   \* SpecBook: OrdermatchContext::orderbook
    nowSec,      \* now_ms() / 1000
    pendingSync, \* SpecBook: the SyncPubkeyOrderbookState request process_orders_keep_alive awaits
    bookLog,     \* SpecBook: the message handled by the last step and what was answered
    bookPanic,   \* SpecBook: an expect() of process_orders_keep_alive failed
    bookSteps,   \* SpecBook: number of steps taken
    my_maker_orders, \* Spec: OrdermatchContext::my_maker_orders
    my_taker_orders, \* Spec: OrdermatchContext::my_taker_orders
    orderFiles,      \* Spec: the files under ORDERS/MY/MAKER and ORDERS/MY/TAKER
    broadcast,       \* Spec: how often each message was handed to broadcast_ordermatch_message
    swaps,           \* Spec: how often each swap was started
    usedUuids,       \* Spec: the uuids new_uuid() has returned
    loopPc,          \* Spec: the block lp_ordermatch_loop runs next
    matchLog,        \* Spec: the message handled by the last step
    matchSteps,      \* Spec: number of steps taken
    chain,           \* tezos: the ledger state the RPC client reads and changes
    counter_lock,    \* tezos: COUNTER_LOCK, the call holding it or None
    calls,           \* tezos: position and locals of each running coin call
    built,           \* tezos: the signed operations that left their call, in that order
    waits,           \* tezos: position and locals of the running wait call
    mutexes,         \* SpecLocks: the task holding each AsyncMutex of OrdermatchContext, or None
    tasks            \* SpecLocks: the position of each task that locks them

lockVars == <<mutexes, tasks>>

\* what the steps of the ordermatch, orderbook and tezos specifications leave alone
fnVars == <<fnIn, fnOut, lockVars>>

bookVars == <<orderbook, nowSec, pendingSync, bookLog, bookPanic, bookSteps>>

matchVars ==
    <<my_maker_orders, my_taker_orders, orderFiles, broadcast, swaps, usedUuids, loopPc,
      matchLog, matchSteps>>

tezVars == <<chain, counter_lock, calls, built, waits>>

vars ==
    <<fnIn, fnOut, orderbook, nowSec, pendingSync, bookLog, bookPanic, bookSteps,
      my_maker_orders, my_taker_orders, orderFiles, broadcast, swaps, usedUuids, loopPc,
      matchLog, matchSteps, chain, counter_lock, calls, built, waits, mutexes, tasks>>

(***************************************************************************)
(* Option<T>                                                               *)
(***************************************************************************)
None == <<>>

Some(v) == <<v>>

IsSome(o) == o # <<>>

Unwrap(o) == o[1]

(***************************************************************************)
(* MmNumber: an arbitrary precision rational kept in lowest terms with a   *)
(* positive denominator (num_rational::BigRational).                       *)
(***************************************************************************)
Abs(x) == IF x < 0 THEN -x ELSE x

RECURSIVE GCD(_, _)
GCD(a, b) == IF b = 0 THEN a ELSE GCD(b, a % b)

Rat(n, d) ==
    LET s == IF d < 0 THEN -1 ELSE 1
        g == GCD(Abs(n), Abs(d))
    IN  [n |-> (s * n) \div g, d |-> (s * d) \div g]

MmInt(i) == [n |-> i, d |-> 1]

MmAdd(a, b) == Rat(a.n * b.d + b.n * a.d, a.d * b.d)

MmSub(a, b) == Rat(a.n * b.d - b.n * a.d, a.d * b.d)

MmMul(a, b) == Rat(a.n * b.n, a.d * b.d)

MmDiv(a, b) == Rat(a.n * b.d, a.d * b.n)

MmLe(a, b) == a.n * b.d <= b.n * a.d

MmLt(a, b) == a.n * b.d < b.n * a.d

MmGe(a, b) == MmLe(b, a)

MmGt(a, b) == MmLt(b, a)

(***************************************************************************)
(* Maps (HashMap<K, V>) are functions; the empty map is <<>>.              *)
(***************************************************************************)
EmptyMap == <<>>

MapPut(m, k, v) == [x \in DOMAIN m \cup {k} |-> IF x = k THEN v ELSE m[x]]

MapDel(m, ks) == [x \in DOMAIN m \ ks |-> m[x]]

(***************************************************************************)
(* Order matching: the records                                             *)
(***************************************************************************)
OrderConfirmationsSettings(bc, bn, rc, rn) ==
    [base_confs |-> bc, base_nota |-> bn, rel_confs |-> rc, rel_nota |-> rn]

\* The all-zero H256Json a message converted from the wire carries as dest_pub_key.
ZeroPubkey == "zero"

MatchByAny == [type |-> "Any", data |-> {}]

TakerRequest(base, rel, base_amount, rel_amount, action, uuid, sender, dest, match_by, confs) ==
    [base |-> base, rel |-> rel, base_amount |-> base_amount, rel_amount |-> rel_amount,
     action |-> action, uuid |-> uuid, sender_pubkey |-> sender, dest_pub_key |-> dest,
     match_by |-> match_by, conf_settings |-> confs]

MakerReserved(base, rel, base_amount, rel_amount, taker_uuid, maker_uuid, sender, dest, confs) ==
    [base |-> base, rel |-> rel, base_amount |-> base_amount, rel_amount |-> rel_amount,
     taker_order_uuid |-> taker_uuid, maker_order_uuid |-> maker_uuid,
     sender_pubkey |-> sender, dest_pub_key |-> dest, conf_settings |-> confs]

MakerOrder(max_base_vol, min_base_vol, price, created_at, base, rel, uuid, confs) ==
    [max_base_vol |-> max_base_vol, min_base_vol |-> min_base_vol, price |-> price,
     created_at |-> created_at, base |-> base, rel |-> rel, matches |-> <<>>,
     started_swaps |-> <<>>, uuid |-> uuid, conf_settings |-> confs]

MakerMatch(request, reserved, connect, connected, last_updated) ==
    [request |-> request, reserved |-> reserved, connect |-> connect,
     connected |-> connected, last_updated |-> last_updated]

NotMatched == [matched |-> FALSE]

Matched(base_amount, rel_amount) ==
    [matched |-> TRUE, base_amount |-> base_amount, rel_amount |-> rel_amount]

(***************************************************************************)
(* MakerOrder::available_amount: max_base_vol minus the base amounts       *)
(* reserved by the order's matches.                                        *)
(***************************************************************************)
RECURSIVE ReservedSum(_, _)
ReservedSum(matches, keys) ==
    IF keys = {} THEN MmInt(0)
    ELSE LET k == CHOOSE x \in keys : TRUE
         IN  MmAdd(ReservedSum(matches, keys \ {k}), matches[k].reserved.base_amount)

available_amount(order) ==
    MmSub(order.max_base_vol, ReservedSum(order.matches, DOMAIN order.matches))

has_ongoing_matches(order) ==
    \E k \in DOMAIN order.matches :
        order.matches[k].connected = None /\ order.matches[k].connect = None

(***************************************************************************)
(* MakerOrder::match_with_request                                          *)
(***************************************************************************)
match_with_request_no_min_check(order, taker) ==
    LET taker_base_amount == taker.base_amount
        taker_rel_amount == taker.rel_amount
        zero == MmInt(0)
    IN  IF MmLe(taker_base_amount, zero) \/ MmLe(taker_rel_amount, zero)
        THEN NotMatched
        ELSE IF taker.action = "Buy"
        THEN IF /\ order.base = taker.base
                /\ order.rel = taker.rel
                /\ MmLe(taker_base_amount, available_amount(order))
                /\ MmGe(MmDiv(taker_rel_amount, taker_base_amount), order.price)
             THEN Matched(taker_base_amount, MmMul(taker_base_amount, order.price))
             ELSE NotMatched
        ELSE IF /\ order.base = taker.rel
                /\ order.rel = taker.base
                /\ MmLe(taker_rel_amount, available_amount(order))
                /\ MmGe(MmDiv(taker_base_amount, taker_rel_amount), order.price)
             THEN Matched(MmDiv(taker_base_amount, order.price), taker_base_amount)
             ELSE NotMatched

match_with_request(order, taker) ==
    LET taker_base_amount == taker.base_amount
        taker_rel_amount == taker.rel_amount
        zero == MmInt(0)
    IN  IF MmLe(taker_base_amount, zero) \/ MmLe(taker_rel_amount, zero)
        THEN NotMatched
        ELSE IF taker.action = "Buy"
        THEN LET taker_price == MmDiv(taker_rel_amount, taker_base_amount)
             IN  IF /\ order.base = taker.base
                    /\ order.rel = taker.rel
                    /\ MmLe(taker_base_amount, available_amount(order))
                    /\ MmGe(taker_base_amount, order.min_base_vol)
                    /\ MmGe(taker_price, order.price)
                 THEN Matched(taker_base_amount, MmMul(taker_base_amount, order.price))
                 ELSE NotMatched
        ELSE LET taker_price == MmDiv(taker_base_amount, taker_rel_amount)
             IN  IF /\ order.base = taker.rel
                    /\ order.rel = taker.base
                    /\ MmLe(taker_rel_amount, available_amount(order))
                    /\ MmGe(taker_rel_amount, order.min_base_vol)
                    /\ MmGe(taker_price, order.price)
                 THEN Matched(MmDiv(taker_base_amount, order.price), taker_base_amount)
                 ELSE NotMatched

(***************************************************************************)
(* Confirmation settings negotiation.  A coin is the pair of its           *)
(* required_confirmations() and requires_notarization().                   *)
(***************************************************************************)
SwapConfirmationsSettings(mc, mn, tc, tn) ==
    [maker_coin_confs |-> mc, maker_coin_nota |-> mn,
     taker_coin_confs |-> tc, taker_coin_nota |-> tn]

choose_maker_confs_and_notas_ignores_taker(maker_confs, taker_req, maker_coin, taker_coin) ==
    LET maker_settings ==
            IF IsSome(maker_confs) THEN Unwrap(maker_confs)
            ELSE OrderConfirmationsSettings(maker_coin.confs, maker_coin.nota,
                                            taker_coin.confs, taker_coin.nota)
    IN  SwapConfirmationsSettings(maker_settings.base_confs, maker_settings.base_nota,
                                  maker_settings.rel_confs, maker_settings.rel_nota)

choose_maker_confs_and_notas(maker_confs, taker_req, maker_coin, taker_coin) ==
    LET maker_settings ==
            IF IsSome(maker_confs) THEN Unwrap(maker_confs)
            ELSE OrderConfirmationsSettings(maker_coin.confs, maker_coin.nota,
                                            taker_coin.confs, taker_coin.nota)
    IN  IF IsSome(taker_req.conf_settings)
        THEN LET taker_settings == Unwrap(taker_req.conf_settings)
             IN  IF taker_req.action = "Sell"
                 THEN LET maker_coin_confs ==
                              IF taker_settings.rel_confs < maker_settings.base_confs
                              THEN taker_settings.rel_confs
                              ELSE maker_settings.base_confs
                          maker_coin_nota ==
                              IF ~taker_settings.rel_nota
                              THEN taker_settings.rel_nota
                              ELSE maker_settings.base_nota
                      IN  SwapConfirmationsSettings(maker_coin_confs, maker_coin_nota,
                                                    maker_settings.rel_confs,
                                                    maker_settings.rel_nota)
                 ELSE LET maker_coin_confs ==
                              IF taker_settings.base_confs < maker_settings.base_confs
                              THEN taker_settings.base_confs
                              ELSE maker_settings.base_confs
                          maker_coin_nota ==
                              IF ~taker_settings.base_nota
                              THEN taker_settings.base_nota
                              ELSE maker_settings.base_nota
                      IN  SwapConfirmationsSettings(maker_coin_confs, maker_coin_nota,
                                                    maker_settings.rel_confs,
                                                    maker_settings.rel_nota)
        ELSE SwapConfirmationsSettings(maker_settings.base_confs, maker_settings.base_nota,
                                       maker_settings.rel_confs, maker_settings.rel_nota)

choose_taker_confs_and_notas(taker_req, maker_reserved, maker_coin, taker_coin) ==
    LET own ==
            IF taker_req.action = "Buy"
            THEN IF IsSome(taker_req.conf_settings)
                 THEN LET s == Unwrap(taker_req.conf_settings)
                      IN  <<s.rel_confs, s.rel_nota, s.base_confs, s.base_nota>>
                 ELSE <<taker_coin.confs, taker_coin.nota, maker_coin.confs, maker_coin.nota>>
            ELSE IF IsSome(taker_req.conf_settings)
                 THEN LET s == Unwrap(taker_req.conf_settings)
                      IN  <<s.base_confs, s.base_nota, s.rel_confs, s.rel_nota>>
                 ELSE <<taker_coin.confs, taker_coin.nota, maker_coin.confs, maker_coin.nota>>
        from_maker == maker_reserved.conf_settings
        taker_coin_confs ==
            IF IsSome(from_maker) /\ Unwrap(from_maker).rel_confs < own[1]
            THEN Unwrap(from_maker).rel_confs
            ELSE own[1]
        taker_coin_nota ==
            IF IsSome(from_maker) /\ ~Unwrap(from_maker).rel_nota
            THEN Unwrap(from_maker).rel_nota
            ELSE own[2]
    IN  SwapConfirmationsSettings(own[3], own[4], taker_coin_confs, taker_coin_nota)

(***************************************************************************)
(* Orderbook replication engine.                                           *)
(*                                                                         *)
(* A trie is identified by its root hash.  The hash (Blake2Hasher64) is    *)
(* taken to be collision free, so a root is modelled by the key/value set  *)
(* it commits to: TrieRoot(kv), kv a map uuid -> OrderbookItem (the value  *)
(* bytes rmp_serde::to_vec(order) determine the order).  H64::default() is *)
(* the separate value DefaultRoot; the empty trie has the root             *)
(* hashed_null_node = TrieRoot(<<>>).                                      *)
(*                                                                         *)
(* memory_db holds reference counted nodes; only root nodes matter here:   *)
(* memory_db maps the kv of each stored non-empty trie to its count.  The  *)
(* null node is always contained and DefaultRoot never is.                 *)
(***************************************************************************)
DefaultRoot == [default |-> TRUE, kv |-> <<>>]

TrieRoot(kv) == [default |-> FALSE, kv |-> kv]

hashed_null_node == TrieRoot(<<>>)

DbContains(db, root) == ~root.default /\ (root.kv = <<>> \/ root.kv \in DOMAIN db)

DbInsert(db, kv) ==
    IF kv = <<>> THEN db
    ELSE [k \in DOMAIN db \cup {kv} |-> IF k = kv THEN (IF kv \in DOMAIN db THEN db[kv] + 1 ELSE 1)
                                        ELSE db[k]]

DbRemove(db, kv) ==
    IF kv \notin DOMAIN db THEN db
    ELSE IF db[kv] = 1 THEN [k \in DOMAIN db \ {kv} |-> db[k]]
    ELSE [db EXCEPT ![kv] = @ - 1]

\* MemoryDB::remove_and_purge(root, EMPTY_PREFIX): the root node is dropped whatever its count.
remove_and_purge(db, root) == [k \in DOMAIN db \ {root.kv} |-> db[k]]

\* Committing a TrieDBMut that turned the trie old_kv into new_kv.
DbCommit(db, old_kv, new_kv) ==
    IF old_kv = new_kv THEN db ELSE DbInsert(DbRemove(db, old_kv), new_kv)

\* TrieDiff deltas are sequences of <<key, Option<value>>>.
RECURSIVE ApplyDelta(_, _)
ApplyDelta(kv, delta) ==
    IF delta = <<>> THEN kv
    ELSE LET e == Head(delta)
             kv1 == IF IsSome(e[2]) THEN MapPut(kv, e[1], Unwrap(e[2]))
                    ELSE MapDel(kv, {e[1]})
         IN  ApplyDelta(kv1, Tail(delta))

\* sp_trie::delta_trie_root: Err when the root is not in the db.
delta_trie_root(db, root, delta) ==
    IF ~DbContains(db, root) THEN [ok |-> FALSE, root |-> root, db |-> db]
    ELSE LET kv == ApplyDelta(root.kv, delta)
         IN  [ok |-> TRUE, root |-> TrieRoot(kv), db |-> DbCommit(db, root.kv, kv)]

OrderbookItem(pubkey, base, rel, price, max_volume, min_volume, uuid) ==
    [pubkey |-> pubkey, base |-> base, rel |-> rel, price |-> price,
     max_volume |-> max_volume, min_volume |-> min_volume, uuid |-> uuid, created_at |-> 0]

\* Tickers compare as strings; these are the tickers of the model in that order.
TickerRank == [A |-> 1, B |-> 2, C |-> 3]

alb_ordered_pair(base, rel) ==
    IF TickerRank[base] < TickerRank[rel] THEN <<base, rel>> ELSE <<rel, base>>

orderbook_topic_from_ordered_pair(pair) == <<"orbk", pair>>

(***************************************************************************)
(* TrieDiffHistory                                                         *)
(***************************************************************************)
TrieDiff(delta, next_root) == [delta |-> delta, next_root |-> next_root]

\* The keys removed by the clean-up loop of insert_new_diff, starting at `root`.
RECURSIVE HistoryChainKeys(_, _, _)
HistoryChainKeys(inner, root, seen) ==
    IF root \notin DOMAIN inner \/ root \in seen THEN seen
    ELSE HistoryChainKeys(inner, inner[root].next_root, seen \cup {root})

insert_new_diff_no_cycle_check(inner, insert_at, diff) ==
    IF diff.next_root \in DOMAIN inner
    THEN MapDel(inner, HistoryChainKeys(inner, diff.next_root, {}))
    ELSE MapPut(inner, insert_at, diff)

insert_new_diff(inner, insert_at, diff) ==
    IF insert_at = diff.next_root THEN inner
    ELSE IF diff.next_root \in DOMAIN inner
    THEN MapDel(inner, HistoryChainKeys(inner, diff.next_root, {}))
    ELSE MapPut(inner, insert_at, diff)

(***************************************************************************)
(* Orderbook                                                               *)
(***************************************************************************)
EmptyOrderbook ==
    [ordered |-> <<>>, unordered |-> <<>>, order_set |-> <<>>, pubkeys_state |-> <<>>,
     topics_subscribed_to |-> {}, memory_db |-> <<>>]

OrderbookPubkeyStateDefault ==
    [last_keep_alive |-> 0, order_pairs_trie_state_history |-> <<>>,
     orders_uuids |-> {}, trie_roots |-> <<>>]

pubkey_state_mut(state, from_pubkey, now) ==
    IF from_pubkey \in DOMAIN state THEN state
    ELSE MapPut(state, from_pubkey, [OrderbookPubkeyStateDefault EXCEPT !.last_keep_alive = now])

order_pair_root_mut(trie_roots, pair) ==
    IF pair \in DOMAIN trie_roots THEN trie_roots ELSE MapPut(trie_roots, pair, DefaultRoot)

find_order_by_uuid_or_default(ob, uuid, from_pubkey) ==
    IF uuid \in DOMAIN ob.order_set THEN Some(ob.order_set[uuid])
    ELSE Some(OrderbookItem(from_pubkey, "A", "B", MmInt(1), MmInt(1), MmInt(0), uuid))

find_order_by_uuid_and_pubkey(ob, uuid, from_pubkey) ==
    IF uuid \in DOMAIN ob.order_set /\ ob.order_set[uuid].pubkey = from_pubkey
    THEN Some(ob.order_set[uuid])
    ELSE None

\* Removes `elem` from the set stored under `key`, dropping the key when the set gets empty.
IndexRemove(index, key, elem) ==
    IF key \notin DOMAIN index THEN index
    ELSE IF index[key] \ {elem} = {} THEN MapDel(index, {key})
    ELSE [index EXCEPT ![key] = @ \ {elem}]

IndexInsert(index, key, elem) ==
    MapPut(index, key, (IF key \in DOMAIN index THEN index[key] ELSE {}) \cup {elem})

remove_order(ob, uuid) ==
    IF uuid \notin DOMAIN ob.order_set THEN ob
    ELSE LET order == ob.order_set[uuid]
             base_rel == <<order.base, order.rel>>
         IN  [ob EXCEPT !.order_set = MapDel(@, {uuid}),
                        !.ordered = IndexRemove(@, base_rel, <<order.price, uuid>>),
                        !.unordered = IndexRemove(@, base_rel, uuid)]

remove_order_trie_update(ob, uuid, now) ==
    IF uuid \notin DOMAIN ob.order_set THEN ob
    ELSE LET order == ob.order_set[uuid]
             ob1 == remove_order(ob, uuid)
             alb_ordered == alb_ordered_pair(order.base, order.rel)
             states == pubkey_state_mut(ob1.pubkeys_state, order.pubkey, now)
             roots == order_pair_root_mut(states[order.pubkey].trie_roots, alb_ordered)
             old_state == roots[alb_ordered]
             res == delta_trie_root(ob1.memory_db, old_state, <<<<uuid, None>>>>)
         IN  IF ~res.ok
             THEN [ob1 EXCEPT !.pubkeys_state =
                       [states EXCEPT ![order.pubkey].trie_roots = roots]]
             ELSE [ob1 EXCEPT
                     !.memory_db = res.db,
                     !.pubkeys_state =
                       [states EXCEPT
                          ![order.pubkey].trie_roots = [roots EXCEPT ![alb_ordered] = res.root],
                          ![order.pubkey].order_pairs_trie_state_history =
                              insert_new_diff(@, old_state,
                                              TrieDiff(<<<<uuid, None>>>>, res.root))]]

IsRemoval(order) ==
    order.max_volume.n <= 0 \/ order.price.n <= 0 \/ order.min_volume.n < 0

insert_or_update_order(ob, order, now) ==
    IF IsRemoval(order) THEN remove_order_trie_update(ob, order.uuid, now)
    ELSE LET base_rel == <<order.base, order.rel>>
         IN  [ob EXCEPT !.ordered = IndexInsert(@, base_rel, <<order.price, order.uuid>>),
                        !.unordered = IndexInsert(@, base_rel, order.uuid),
                        !.order_set = MapPut(@, order.uuid, order)]

insert_or_update_order_update_trie(ob, order, now) ==
    IF IsRemoval(order) THEN remove_order_trie_update(ob, order.uuid, now)
    ELSE LET ob1 == insert_or_update_order(ob, order, now)
             states == pubkey_state_mut(ob1.pubkeys_state, order.pubkey, now)
             alb_ordered == alb_ordered_pair(order.base, order.rel)
             roots == order_pair_root_mut(states[order.pubkey].trie_roots, alb_ordered)
             prev_root == roots[alb_ordered]
             uuids == states[order.pubkey].orders_uuids \cup {<<order.uuid, alb_ordered>>}
             \* get_trie_mut: a new trie for the default root, else the existing one
             trie_ok == prev_root = DefaultRoot \/ DbContains(ob1.memory_db, prev_root)
             kv == MapPut(prev_root.kv, order.uuid, order)
         IN  IF ~trie_ok
             THEN [ob1 EXCEPT !.pubkeys_state =
                       [states EXCEPT ![order.pubkey].trie_roots = roots,
                                      ![order.pubkey].orders_uuids = uuids]]
             ELSE [ob1 EXCEPT
                     !.memory_db = DbCommit(@, prev_root.kv, kv),
                     !.pubkeys_state =
                       [states EXCEPT
                          ![order.pubkey].trie_roots = [roots EXCEPT ![alb_ordered] = TrieRoot(kv)],
                          ![order.pubkey].orders_uuids = uuids,
                          ![order.pubkey].order_pairs_trie_state_history =
                              IF prev_root # DefaultRoot
                              THEN insert_new_diff(@, prev_root,
                                     TrieDiff(<<<<order.uuid, Some(order)>>>>, TrieRoot(kv)))
                              ELSE @]]

(***************************************************************************)
(* Keep-alive and trie synchronisation                                     *)
(***************************************************************************)
MIN_ORDER_KEEP_ALIVE_INTERVAL == 30

MAKER_ORDER_TIMEOUT == MIN_ORDER_KEEP_ALIVE_INTERVAL * 3

\* The root the receiver holds for (pubkey, pair); trie_roots.entry(pair).or_insert(default).
CachedRoot(ob, pubkey, pair) ==
    IF pubkey \in DOMAIN ob.pubkeys_state /\ pair \in DOMAIN ob.pubkeys_state[pubkey].trie_roots
    THEN ob.pubkeys_state[pubkey].trie_roots[pair]
    ELSE DefaultRoot

\* Orderbook::process_keep_alive: the new orderbook and the request to send, if any.
process_keep_alive(ob, from_pubkey, message, now) ==
    LET states == pubkey_state_mut(ob.pubkeys_state, from_pubkey, now)
        subscribed == {pair \in DOMAIN message.trie_roots :
                          orderbook_topic_from_ordered_pair(pair) \in ob.topics_subscribed_to}
        old_roots == states[from_pubkey].trie_roots
        roots == [pair \in DOMAIN old_roots \cup subscribed |->
                     IF pair \in DOMAIN old_roots THEN old_roots[pair] ELSE DefaultRoot]
        to_request == {pair \in subscribed : roots[pair] # message.trie_roots[pair]}
        trie_roots_to_request == [pair \in to_request |-> message.trie_roots[pair]]
    IN  IF to_request = {}
        THEN [ob |-> [ob EXCEPT !.pubkeys_state =
                         [states EXCEPT ![from_pubkey].trie_roots = roots,
                                        ![from_pubkey].last_keep_alive = message.timestamp]],
              req |-> None]
        ELSE [ob |-> [ob EXCEPT !.pubkeys_state =
                         [states EXCEPT ![from_pubkey].trie_roots = roots]],
              req |-> Some([pubkey |-> from_pubkey, trie_roots |-> trie_roots_to_request])]

Delta(delta) == [kind |-> "Delta", delta |-> delta, values |-> <<>>]

FullTrie(values) == [kind |-> "FullTrie", delta |-> <<>>, values |-> values]

\* HashMap::insert of every entry of a TrieDiff delta into total_delta.
RECURSIVE ExtendTotalDelta(_, _)
ExtendTotalDelta(total, delta) ==
    IF delta = <<>> THEN total
    ELSE ExtendTotalDelta(MapPut(total, Head(delta)[1], Head(delta)[2]), Tail(delta))

\* The chain walk of from_history; `seen` detects a walk that would not end.
RECURSIVE HistoryTotalDelta(_, _, _, _)
HistoryTotalDelta(history, root, total, seen) ==
    IF root \notin DOMAIN history THEN [ends |-> TRUE, delta |-> total, last |-> root]
    ELSE IF root \in seen THEN [ends |-> FALSE, delta |-> total, last |-> root]
    ELSE HistoryTotalDelta(history, history[root].next_root,
                           ExtendTotalDelta(total, history[root].delta), seen \cup {root})

\* The uuids of the model in byte order, the order a trie iterates its keys in.
UuidOrder == <<"u1", "u2">>

RECURSIVE TrieValues(_, _)
TrieValues(kv, order) ==
    IF order = <<>> THEN <<>>
    ELSE (IF Head(order) \in DOMAIN kv THEN <<<<Head(order), kv[Head(order)]>>>> ELSE <<>>)
         \o TrieValues(kv, Tail(order))

\* DeltaOrFullTrie::from_history
from_history(history, from_hash, trie_from_hash, db) ==
    IF from_hash \in DOMAIN history
    THEN LET walk == HistoryTotalDelta(history, from_hash, <<>>, {})
         IN  IF walk.ends THEN [status |-> "ok", diff |-> Delta(walk.delta)]
             ELSE [status |-> "diverges", diff |-> Delta(<<>>)]
    ELSE IF DbContains(db, trie_from_hash)
    THEN [status |-> "ok", diff |-> FullTrie(TrieValues(trie_from_hash.kv, UuidOrder))]
    ELSE [status |-> "err", diff |-> Delta(<<>>)]

\* The map/collect of process_sync_pubkey_orderbook_state over the requested pairs
\* in the order `pairs` the HashMap yields them; the first Err ends it.
RECURSIVE SyncPairsDiff(_, _, _, _, _)
SyncPairsDiff(pubkey_state, db, trie_roots, pairs, acc) ==
    IF pairs = <<>> THEN [status |-> "ok", pair_orders_diff |-> acc]
    ELSE LET pair == Head(pairs)
         IN  IF pair \notin DOMAIN pubkey_state.trie_roots
             THEN [status |-> "err", pair_orders_diff |-> <<>>]
             ELSE LET delta == from_history(pubkey_state.order_pairs_trie_state_history,
                                            trie_roots[pair], pubkey_state.trie_roots[pair], db)
                  IN  IF delta.status # "ok"
                      THEN [status |-> delta.status, pair_orders_diff |-> <<>>]
                      ELSE SyncPairsDiff(pubkey_state, db, trie_roots, Tail(pairs),
                                         MapPut(acc, pair, delta.diff))

\* process_sync_pubkey_orderbook_state: the answer to SyncPubkeyOrderbookState.
process_sync_pubkey_orderbook_state(ob, pubkey, trie_roots, pairs) ==
    IF pubkey \notin DOMAIN ob.pubkeys_state THEN [status |-> "none", pair_orders_diff |-> <<>>]
    ELSE SyncPairsDiff(ob.pubkeys_state[pubkey], ob.memory_db, trie_roots, pairs, <<>>)

\* The Delta branch of process_orders_keep_alive applies a HashMap<Uuid, Option<order>>.
DeltaEntries(delta, order) ==
    IF order = <<>> THEN <<>>
    ELSE [i \in 1..Len(SelectSeq(order, LAMBDA u : u \in DOMAIN delta)) |->
            LET u == SelectSeq(order, LAMBDA v : v \in DOMAIN delta)[i] IN <<u, delta[u]>>]

RECURSIVE PopulateTrie(_, _)
PopulateTrie(kv, values) ==
    IF values = <<>> THEN kv
    ELSE PopulateTrie(MapPut(kv, Head(values)[1], Head(values)[2]), Tail(values))

RECURSIVE InsertValues(_, _, _)
InsertValues(ob, values, now) ==
    IF values = <<>> THEN ob
    ELSE InsertValues(insert_or_update_order(ob, Head(values)[2], now), Tail(values), now)

\* One iteration of the loop over response.pair_orders_diff in process_orders_keep_alive.
\* panic: one of the two expect() calls failed.
ApplyPairDiff(ob, from_pubkey, pair, diff, now) ==
    IF from_pubkey \notin DOMAIN ob.pubkeys_state THEN [ob |-> ob, panic |-> TRUE]
    ELSE LET old_root == CachedRoot(ob, from_pubkey, pair)
         IN  IF diff.kind = "Delta"
             THEN LET res == delta_trie_root(ob.memory_db, old_root,
                                             DeltaEntries(diff.delta, UuidOrder))
                  IN  IF ~res.ok THEN [ob |-> ob, panic |-> TRUE]
                      ELSE [ob |-> [ob EXCEPT
                                      !.memory_db = res.db,
                                      !.pubkeys_state[from_pubkey].trie_roots =
                                          MapPut(@, pair, res.root)],
                            panic |-> FALSE]
             ELSE LET kv == PopulateTrie(<<>>, diff.values)
                      ob1 == [ob EXCEPT !.memory_db =
                                 DbInsert(remove_and_purge(@, old_root), kv)]
                      ob2 == InsertValues(ob1, diff.values, now)
                  IN  [ob |-> [ob2 EXCEPT !.pubkeys_state[from_pubkey].trie_roots =
                                              MapPut(@, pair, TrieRoot(kv))],
                       panic |-> FALSE]

\* The loop itself, over the entries in the order the HashMap yields them.
RECURSIVE ApplySyncResponse(_, _, _, _)
ApplySyncResponse(ob, from_pubkey, diffs, now) ==
    IF diffs = <<>> THEN [ob |-> ob, panic |-> FALSE]
    ELSE LET r == ApplyPairDiff(ob, from_pubkey, Head(diffs)[1], Head(diffs)[2], now)
         IN  IF r.panic THEN r ELSE ApplySyncResponse(r.ob, from_pubkey, Tail(diffs), now)

\* The orderbook block of lp_ordermatch_loop: timed out pubkeys and their orders are dropped.
RECURSIVE RemoveOrders(_, _)
RemoveOrders(ob, uuids) ==
    IF uuids = {} THEN ob
    ELSE LET u == CHOOSE x \in uuids : TRUE
         IN  RemoveOrders(remove_order(ob, u), uuids \ {u})

RECURSIVE PurgeRoots(_, _)
PurgeRoots(db, keys) ==
    IF keys = {} THEN db
    ELSE LET k == CHOOSE x \in keys : TRUE
         IN  PurgeRoots(remove_and_purge(db, k), keys \ {k})

purge_timed_out_pubkeys(ob, my_pubsecp, now) ==
    LET gone == {pk \in DOMAIN ob.pubkeys_state :
                    ~(pk = my_pubsecp
                      \/ ob.pubkeys_state[pk].last_keep_alive + MAKER_ORDER_TIMEOUT > now)}
        uuids_to_remove == {e[1] : e \in UNION {ob.pubkeys_state[pk].orders_uuids : pk \in gone}}
        keys_to_remove == UNION {{ob.pubkeys_state[pk].trie_roots[pair] :
                                     pair \in DOMAIN ob.pubkeys_state[pk].trie_roots} : pk \in gone}
        ob1 == RemoveOrders([ob EXCEPT !.pubkeys_state = MapDel(@, gone)], uuids_to_remove)
    IN  [ob1 EXCEPT !.memory_db = PurgeRoots(@, keys_to_remove)]

(***************************************************************************)
(* SpecFn: the pure functions on inputs drawn from bounded sets.           *)
(***************************************************************************)
MaxConfs == 2

FnPrices == {Rat(1, 2), MmInt(1), MmInt(2)}

FnMinVols == {MmInt(0), MmInt(1), MmInt(6)}

FnReservedVols == {MmInt(0), MmInt(4), MmInt(10)}

FnTakerBaseAmounts == {MmInt(-1), MmInt(0), MmInt(1), MmInt(2), MmInt(5), MmInt(10), MmInt(20)}

FnTakerRelAmounts == {MmInt(0), MmInt(1), MmInt(5), MmInt(9), MmInt(10), MmInt(20)}

FnTakerPairs == {<<"A", "B">>, <<"B", "A">>, <<"A", "C">>}

FnSettings ==
    {OrderConfirmationsSettings(bc, bn, rc, rn) :
        bc \in 0..MaxConfs, bn \in BOOLEAN, rc \in 0..MaxConfs, rn \in BOOLEAN}

FnOptSettings == {None} \cup {Some(s) : s \in FnSettings}

FnCoins == {[confs |-> 1, nota |-> FALSE], [confs |-> MaxConfs, nota |-> TRUE]}

FnRequest(pair, base_amount, rel_amount, action, confs) ==
    TakerRequest(pair[1], pair[2], base_amount, rel_amount, action, "t1", "taker",
                 ZeroPubkey, MatchByAny, confs)

\* An order on A/B with max_base_vol 10 of which `reserved` is held by one earlier match.
FnOrder(price, min_vol, reserved) ==
    LET o == MakerOrder(MmInt(10), min_vol, price, 0, "A", "B", "m1", None)
        r == MakerReserved("A", "B", reserved, MmMul(reserved, price), "t0", "m1",
                           "me", "taker", None)
        m == MakerMatch(FnRequest(<<"A", "B">>, reserved, MmMul(reserved, price), "Buy", None),
                        r, None, None, 0)
    IN  IF reserved = MmInt(0) THEN o ELSE [o EXCEPT !.matches = MapPut(<<>>, "t0", m)]

FnMatchInputs ==
    {[kind |-> "match", order |-> FnOrder(p, mn, r),
      taker |-> FnRequest(pair, b, q, a, None)] :
        p \in FnPrices, mn \in FnMinVols, r \in FnReservedVols, pair \in FnTakerPairs,
        b \in FnTakerBaseAmounts, q \in FnTakerRelAmounts, a \in {"Buy", "Sell"}}

FnMakerConfsInputs ==
    {[kind |-> "maker_confs", maker_confs |-> mc,
      taker_req |-> FnRequest(<<"A", "B">>, MmInt(1), MmInt(1), a, tc),
      maker_coin |-> c1, taker_coin |-> c2] :
        mc \in FnOptSettings, tc \in FnOptSettings, a \in {"Buy", "Sell"},
        c1 \in FnCoins, c2 \in FnCoins}

FnTakerConfsInputs ==
    {[kind |-> "taker_confs",
      taker_req |-> FnRequest(<<"A", "B">>, MmInt(1), MmInt(1), a, tc),
      maker_reserved |-> MakerReserved("A", "B", MmInt(1), MmInt(1), "t1", "m1",
                                       "me", "taker", mc),
      maker_coin |-> c1, taker_coin |-> c2] :
        mc \in FnOptSettings, tc \in FnOptSettings, a \in {"Buy", "Sell"},
        c1 \in FnCoins, c2 \in FnCoins}

\* the AsyncMutex fields of OrdermatchContext
Mutexes == {"my_maker_orders", "my_taker_orders", "my_cancelled_orders", "orderbook"}

\* the tasks that lock them: the loop, the RPC methods and the message handlers
LockTasks ==
    {"lp_ordermatch_loop", "cancel_orders_by", "cancel_order", "my_orders", "order_status",
     "process_maker_reserved", "process_maker_connected", "process_taker_request",
     "process_taker_connect"}

LockIdle == mutexes = [m \in Mutexes |-> None] /\ tasks = [t \in LockTasks |-> "start"]

FnIdle == fnIn = [kind |-> "idle"] /\ fnOut = None /\ LockIdle

NoLog == [op |-> "none"]

BookIdle ==
    /\ orderbook = EmptyOrderbook
    /\ nowSec = 0
    /\ pendingSync = None
    /\ bookLog = NoLog
    /\ bookPanic = FALSE
    /\ bookSteps = 0

MatchIdle ==
    /\ my_maker_orders = <<>>
    /\ my_taker_orders = <<>>
    /\ orderFiles = [maker |-> <<>>, taker |-> <<>>]
    /\ broadcast = <<>>
    /\ swaps = <<>>
    /\ usedUuids = {}
    /\ loopPc = 1
    /\ matchLog = NoLog
    /\ matchSteps = 0

TezCallers == {"c1", "c2"}

NoCall == [pc |-> "idle"]

\* counter and manager_key of the node's account, the blocks above genesis, the
\* injected operations not yet in a block, the node's account in the token contract,
\* the state of the atomic swap a wait_for_tx_spend call looks at
Chain(counter, manager_key, blocks, mempool, erc_account, swap_state) ==
    [counter |-> counter, manager_key |-> manager_key, blocks |-> blocks,
     mempool |-> mempool, erc_account |-> erc_account, swap_state |-> swap_state]

ErcAccount(balance, allowance) == [balance |-> balance, allowance |-> allowance]

TezIdle ==
    /\ chain = Chain(0, None, <<>>, {}, ErcAccount(0, 0), "Initialized")
    /\ counter_lock = None
    /\ calls = [c \in TezCallers |-> NoCall]
    /\ built = <<>>
    /\ waits = NoCall

FnInit ==
    /\ fnIn \in FnMatchInputs \cup FnMakerConfsInputs \cup FnTakerConfsInputs
    /\ fnOut = None
    /\ LockIdle
    /\ BookIdle
    /\ MatchIdle
    /\ TezIdle

ApplyMatch ==
    /\ fnIn.kind = "match"
    /\ fnOut = None
    /\ fnOut' = Some(match_with_request(fnIn.order, fnIn.taker))
    /\ UNCHANGED <<fnIn, lockVars, bookVars, matchVars, tezVars>>

ApplyMakerConfs ==
    /\ fnIn.kind = "maker_confs"
    /\ fnOut = None
    /\ fnOut' = Some(choose_maker_confs_and_notas(fnIn.maker_confs, fnIn.taker_req,
                                                  fnIn.maker_coin, fnIn.taker_coin))
    /\ UNCHANGED <<fnIn, lockVars, bookVars, matchVars, tezVars>>

ApplyTakerConfs ==
    /\ fnIn.kind = "taker_confs"
    /\ fnOut = None
    /\ fnOut' = Some(choose_taker_confs_and_notas(fnIn.taker_req, fnIn.maker_reserved,
                                                  fnIn.maker_coin, fnIn.taker_coin))
    /\ UNCHANGED <<fnIn, lockVars, bookVars, matchVars, tezVars>>

FnNext == ApplyMatch \/ ApplyMakerConfs \/ ApplyTakerConfs

SpecFn == FnInit /\ [][FnNext]_vars

(***************************************************************************)
(* C5: for a Buy request with positive amounts match_with_request returns  *)
(* Matched((taker_base, taker_base * price)) exactly when the tickers are  *)
(* equal, min_base_vol <= taker_base <= available_amount() and             *)
(* taker_rel / taker_base >= price; otherwise it returns NotMatched.       *)
(***************************************************************************)
C5_BuyMatchedIff ==
    (/\ fnIn.kind = "match"
     /\ IsSome(fnOut)
     /\ fnIn.taker.action = "Buy"
     /\ fnIn.taker.base_amount.n > 0
     /\ fnIn.taker.rel_amount.n > 0)
    => LET o == fnIn.order
           t == fnIn.taker
           avail == available_amount(o)
           cond == /\ o.base = t.base
                   /\ o.rel = t.rel
                   /\ o.min_base_vol.n * t.base_amount.d <= t.base_amount.n * o.min_base_vol.d
                   /\ t.base_amount.n * avail.d <= avail.n * t.base_amount.d
                   /\ t.rel_amount.n * t.base_amount.d * o.price.d
                        >= o.price.n * t.base_amount.n * t.rel_amount.d
       IN  Unwrap(fnOut) = IF cond
                           THEN Matched(t.base_amount, MmMul(t.base_amount, o.price))
                           ELSE NotMatched

\* price 2, max 10, min 1 with Buy 5 for 10 gave Matched((5, 10)).
C5_Witness ==
    /\ fnIn.kind = "match"
    /\ fnIn.taker.action = "Buy"
    /\ fnIn.order.price = MmInt(2)
    /\ fnIn.order.min_base_vol = MmInt(1)
    /\ fnIn.order.matches = <<>>
    /\ fnIn.taker.base = "A" /\ fnIn.taker.rel = "B"
    /\ fnIn.taker.base_amount = MmInt(5)
    /\ fnIn.taker.rel_amount = MmInt(10)
    /\ fnOut = Some(Matched(MmInt(5), MmInt(10)))

(***************************************************************************)
(* C6: for a Sell request the base volume of a Matched result, which is    *)
(* taker_base / price, lies within [min_base_vol, available_amount()].     *)
(***************************************************************************)
C6_SellMatchedVolumeWithinBounds ==
    (/\ fnIn.kind = "match"
     /\ IsSome(fnOut)
     /\ fnIn.taker.action = "Sell"
     /\ Unwrap(fnOut).matched)
    => /\ Unwrap(fnOut) = Matched(MmDiv(fnIn.taker.base_amount, fnIn.order.price),
                                  fnIn.taker.base_amount)
       /\ MmLe(fnIn.order.min_base_vol, Unwrap(fnOut).base_amount)
       /\ MmLe(Unwrap(fnOut).base_amount, available_amount(fnIn.order))

(***************************************************************************)
(* C7: the maker side takes, for the maker coin, the minimum of the        *)
(* taker's requested confirmations and the order's base_confs and the AND  *)
(* of the two notarization flags, and keeps the order's rel settings for   *)
(* the taker coin; the taker side takes, for the taker coin, the minimum   *)
(* of its own confirmations and the reserved message's rel_confs and the   *)
(* AND of the flags, and keeps its own settings for the maker coin.        *)
(***************************************************************************)
MinOf(a, b) == IF a <= b THEN a ELSE b

\* The taker's settings seen from the maker: <<maker coin confs, nota, taker coin confs, nota>>.
TakerSettingsByRole(req) ==
    LET s == Unwrap(req.conf_settings)
    IN  IF req.action = "Buy"
        THEN <<s.base_confs, s.base_nota, s.rel_confs, s.rel_nota>>
        ELSE <<s.rel_confs, s.rel_nota, s.base_confs, s.base_nota>>

C7_ConfsNegotiation ==
    /\ (/\ fnIn.kind = "maker_confs"
        /\ IsSome(fnOut)
        /\ IsSome(fnIn.maker_confs)
        /\ IsSome(fnIn.taker_req.conf_settings))
       => LET m == Unwrap(fnIn.maker_confs)
              t == TakerSettingsByRole(fnIn.taker_req)
          IN  Unwrap(fnOut) =
                  SwapConfirmationsSettings(MinOf(t[1], m.base_confs), t[2] /\ m.base_nota,
                                            m.rel_confs, m.rel_nota)
    /\ (/\ fnIn.kind = "taker_confs"
        /\ IsSome(fnOut)
        /\ IsSome(fnIn.maker_reserved.conf_settings)
        /\ IsSome(fnIn.taker_req.conf_settings))
       => LET m == Unwrap(fnIn.maker_reserved.conf_settings)
              t == TakerSettingsByRole(fnIn.taker_req)
          IN  Unwrap(fnOut) =
                  SwapConfirmationsSettings(t[1], t[2],
                                            MinOf(t[3], m.rel_confs), t[4] /\ m.rel_nota)

\* The case of the confirmation-sync tests: maker 2/true/2/true, taker 1/false/1/false, Buy.
C7_Witness ==
    /\ fnIn.kind = "maker_confs"
    /\ fnIn.taker_req.action = "Buy"
    /\ fnIn.maker_confs = Some(OrderConfirmationsSettings(2, TRUE, 2, TRUE))
    /\ fnIn.taker_req.conf_settings = Some(OrderConfirmationsSettings(1, FALSE, 1, FALSE))
    /\ fnOut = Some(SwapConfirmationsSettings(1, FALSE, 2, TRUE))

(***************************************************************************)
(* SpecBook: one node's Orderbook under gossip, keep-alive sync and purge. *)
(***************************************************************************)
MaxBookSteps == 4

MaxBookTicks == 3

MaxSyncPairs == 1

MaxTrieValues == 2

my_pubsecp == "me"

BookPubkeys == {my_pubsecp, "p1", "p2"}

BookUuids == {UuidOrder[i] : i \in 1..Len(UuidOrder)}

BookBaseRels == {<<"A", "B">>, <<"B", "A">>, <<"A", "C">>}

BookAlbPairs == {alb_ordered_pair(br[1], br[2]) : br \in BookBaseRels}

\* The orders MakerOrderCreated messages announce: p1 trades every pair, the other
\* pubkeys A/B only.
BookCreated(pubkey) ==
    {OrderbookItem(pubkey, br[1], br[2], MmInt(1), MmInt(1), MmInt(0), uuid) :
        br \in (IF pubkey = "p1" THEN BookBaseRels ELSE {<<"A", "B">>}),
        uuid \in (IF pubkey = my_pubsecp THEN {"u1"} ELSE BookUuids)}

MakerOrderUpdated(uuid, new_price, new_max_volume, new_min_volume) ==
    [uuid |-> uuid, new_price |-> new_price, new_max_volume |-> new_max_volume,
     new_min_volume |-> new_min_volume]

BookUpdates ==
    {MakerOrderUpdated(uuid, p, v, None) :
        uuid \in BookUuids, p \in {None, Some(MmInt(2))}, v \in {None, Some(MmInt(0))}}

apply_updated(order, msg) ==
    [order EXCEPT
        !.price = IF IsSome(msg.new_price) THEN Unwrap(msg.new_price) ELSE @,
        !.max_volume = IF IsSome(msg.new_max_volume) THEN Unwrap(msg.new_max_volume) ELSE @,
        !.min_volume = IF IsSome(msg.new_min_volume) THEN Unwrap(msg.new_min_volume) ELSE @]

\* The roots a peer may name: the ones this node holds, the empty trie, and one trie
\* this node never saw.
BookRoots(pubkey) ==
    {hashed_null_node,
     TrieRoot(MapPut(<<>>, "u1",
                     OrderbookItem(pubkey, "A", "B", MmInt(1), MmInt(1), MmInt(0), "u1")))}
    \cup UNION {{orderbook.pubkeys_state[pk].trie_roots[pair] :
                    pair \in DOMAIN orderbook.pubkeys_state[pk].trie_roots} :
                pk \in DOMAIN orderbook.pubkeys_state}
    \cup (IF pubkey \in DOMAIN orderbook.pubkeys_state
          THEN DOMAIN orderbook.pubkeys_state[pubkey].order_pairs_trie_state_history
          ELSE {})

PubkeyKeepAlive(trie_roots, timestamp) == [trie_roots |-> trie_roots, timestamp |-> timestamp]

\* The maps from a non-empty set of at most MaxSyncPairs pairs to roots.
BookRootMaps(pubkey) ==
    UNION {[pairs -> BookRoots(pubkey)] :
              pairs \in {ps \in SUBSET BookAlbPairs :
                            ps # {} /\ Cardinality(ps) <= MaxSyncPairs}}

\* The orders a sync response may carry for `pubkey`.
SyncItems(pubkey) ==
    {OrderbookItem(pubkey, "A", "B", MmInt(1), MmInt(1), MmInt(0), uuid) : uuid \in BookUuids}
    \cup {OrderbookItem(pubkey, "A", "B", MmInt(1), MmInt(0), MmInt(0), "u1"),
          OrderbookItem(CHOOSE pk \in BookPubkeys \ {my_pubsecp, pubkey} : TRUE,
                        "A", "B", MmInt(1), MmInt(1), MmInt(0), "u1")}

SeqsUpTo(S, n) == UNION {[1..k -> S] : k \in 0..n}

SyncDiffs(pubkey) ==
    {Delta(<<>>)}
    \cup {Delta(MapPut(<<>>, uuid, None)) : uuid \in BookUuids}
    \cup {Delta(MapPut(<<>>, item.uuid, Some(item))) : item \in SyncItems(pubkey)}
    \cup {FullTrie(values) :
             values \in SeqsUpTo({<<item.uuid, item>> : item \in SyncItems(pubkey)},
                                 MaxTrieValues)}

SyncResponses(pubkey) ==
    {r \in SeqsUpTo(BookAlbPairs \X SyncDiffs(pubkey), MaxSyncPairs) : r # <<>>}

Permutations2(S) ==
    {q \in SeqsUpTo(S, Cardinality(S)) :
        Len(q) = Cardinality(S) /\ {q[i] : i \in 1..Len(q)} = S}

BookInit ==
    /\ FnIdle
    /\ BookIdle
    /\ MatchIdle
    /\ TezIdle

BookStep ==
    /\ ~bookPanic
    /\ bookSteps < MaxBookSteps
    /\ bookSteps' = bookSteps + 1
    /\ UNCHANGED <<fnVars, matchVars, tezVars>>

\* process_msg, MakerOrderCreated (and maker_order_created_p2p_notify for this node's own).
BookMakerOrderCreated ==
    \E pubkey \in BookPubkeys : \E order \in BookCreated(pubkey) :
        /\ BookStep
        /\ orderbook' = insert_or_update_order_update_trie(orderbook, order, nowSec)
        /\ bookLog' = [op |-> "MakerOrderCreated", uuid |-> order.uuid, from_pubkey |-> pubkey]
        /\ UNCHANGED <<nowSec, pendingSync, bookPanic>>

\* process_maker_order_updated
BookMakerOrderUpdated ==
    \E from_pubkey \in BookPubkeys : \E updated_msg \in BookUpdates :
        LET found == find_order_by_uuid_and_pubkey(orderbook, updated_msg.uuid, from_pubkey)
        IN  /\ BookStep
            /\ orderbook' = IF IsSome(found)
                            THEN insert_or_update_order_update_trie(
                                     orderbook, apply_updated(Unwrap(found), updated_msg), nowSec)
                            ELSE orderbook
            /\ bookLog' = [op |-> "MakerOrderUpdated", uuid |-> updated_msg.uuid,
                           from_pubkey |-> from_pubkey]
            /\ UNCHANGED <<nowSec, pendingSync, bookPanic>>

\* delete_order, on MakerOrderCancelled
BookMakerOrderCancelled ==
    \E pubkey \in BookPubkeys : \E uuid \in BookUuids :
        /\ BookStep
        /\ orderbook' = IF uuid \in DOMAIN orderbook.order_set
                           /\ orderbook.order_set[uuid].pubkey = pubkey
                        THEN remove_order_trie_update(orderbook, uuid, nowSec)
                        ELSE orderbook
        /\ bookLog' = [op |-> "MakerOrderCancelled", uuid |-> uuid, from_pubkey |-> pubkey]
        /\ UNCHANGED <<nowSec, pendingSync, bookPanic>>

\* subscribe_to_orderbook_topic
BookSubscribe ==
    \E pair \in BookAlbPairs :
        /\ BookStep
        /\ orderbook' = [orderbook EXCEPT !.topics_subscribed_to =
                            @ \cup {orderbook_topic_from_ordered_pair(pair)}]
        /\ bookLog' = NoLog
        /\ UNCHANGED <<nowSec, pendingSync, bookPanic>>

\* process_orders_keep_alive up to the request it sends
BookKeepAlive ==
    \E from_pubkey \in BookPubkeys \ {my_pubsecp} :
    \E trie_roots \in BookRootMaps(from_pubkey) : \E timestamp \in {0, nowSec} :
        LET message == PubkeyKeepAlive(trie_roots, timestamp)
            res == process_keep_alive(orderbook, from_pubkey, message, nowSec)
        IN  /\ BookStep
            /\ pendingSync = None
            /\ orderbook' = res.ob
            /\ pendingSync' = res.req
            /\ bookLog' = [op |-> "keep_alive", from_pubkey |-> from_pubkey,
                           message |-> message,
                           cached |-> [pair \in DOMAIN trie_roots |->
                                          CachedRoot(orderbook, from_pubkey, pair)],
                           subscribed |-> {pair \in DOMAIN trie_roots :
                                              orderbook_topic_from_ordered_pair(pair)
                                                  \in orderbook.topics_subscribed_to},
                           req |-> res.req]
            /\ UNCHANGED <<nowSec, bookPanic>>

\* process_orders_keep_alive from the response on
BookSyncResponse ==
    /\ IsSome(pendingSync)
    /\ \E response \in SyncResponses(Unwrap(pendingSync).pubkey) :
        LET res == ApplySyncResponse(orderbook, Unwrap(pendingSync).pubkey, response, nowSec)
        IN  /\ BookStep
            /\ orderbook' = res.ob
            /\ bookPanic' = res.panic
            /\ pendingSync' = None
            /\ bookLog' = NoLog
            /\ UNCHANGED nowSec

\* process_orders_keep_alive when the peer does not answer or answers with an error
BookSyncNoResponse ==
    /\ IsSome(pendingSync)
    /\ BookStep
    /\ pendingSync' = None
    /\ bookLog' = NoLog
    /\ UNCHANGED <<orderbook, nowSec, bookPanic>>

\* process_sync_pubkey_orderbook_state, answering a peer's request
BookSyncRequest ==
    \E pubkey \in BookPubkeys : \E trie_roots \in BookRootMaps(pubkey) :
    \E pairs \in Permutations2(DOMAIN trie_roots) :
        /\ BookStep
        /\ bookLog' = [op |-> "sync_request", pubkey |-> pubkey, trie_roots |-> trie_roots,
                       res |-> process_sync_pubkey_orderbook_state(orderbook, pubkey,
                                                                   trie_roots, pairs)]
        /\ UNCHANGED <<orderbook, nowSec, pendingSync, bookPanic>>

\* lp_ordermatch_loop, the block that drops timed out pubkeys
BookPurge ==
    /\ BookStep
    /\ orderbook' = purge_timed_out_pubkeys(orderbook, my_pubsecp, nowSec)
    /\ bookLog' = NoLog
    /\ UNCHANGED <<nowSec, pendingSync, bookPanic>>

\* Time passes, in units of the keep-alive interval.
BookTick ==
    /\ BookStep
    /\ \E k \in 1..MaxBookTicks :
          /\ nowSec + k * MIN_ORDER_KEEP_ALIVE_INTERVAL
                <= MaxBookTicks * MIN_ORDER_KEEP_ALIVE_INTERVAL
          /\ nowSec' = nowSec + k * MIN_ORDER_KEEP_ALIVE_INTERVAL
    /\ bookLog' = NoLog
    /\ UNCHANGED <<orderbook, pendingSync, bookPanic>>

BookNext ==
    \/ BookMakerOrderCreated
    \/ BookMakerOrderUpdated
    \/ BookMakerOrderCancelled
    \/ BookSubscribe
    \/ BookKeepAlive
    \/ BookSyncResponse
    \/ BookSyncNoResponse
    \/ BookSyncRequest
    \/ BookPurge
    \/ BookTick

SpecBook == BookInit /\ [][BookNext]_vars

(***************************************************************************)
(* C8: after any sequence of insertions, updates, removals and pubkey      *)
(* purges, every uuid that appears in `ordered` or `unordered` is a key of *)
(* `order_set`.                                                            *)
(***************************************************************************)
C8_IndexedUuidsInOrderSet ==
    /\ \A base_rel \in DOMAIN orderbook.ordered :
          \A e \in orderbook.ordered[base_rel] : e[2] \in DOMAIN orderbook.order_set
    /\ \A base_rel \in DOMAIN orderbook.unordered :
          \A uuid \in orderbook.unordered[base_rel] : uuid \in DOMAIN orderbook.order_set

(***************************************************************************)
(* C9: every uuid stored in the trie of a (pubkey, pair) has an entry in   *)
(* `order_set` whose pubkey is that pubkey.                                *)
(***************************************************************************)
C9_TrieUuidsOwnedInOrderSet ==
    \A pubkey \in DOMAIN orderbook.pubkeys_state :
        \A pair \in DOMAIN orderbook.pubkeys_state[pubkey].trie_roots :
            \A uuid \in DOMAIN orderbook.pubkeys_state[pubkey].trie_roots[pair].kv :
                /\ uuid \in DOMAIN orderbook.order_set
                /\ orderbook.order_set[uuid].pubkey = pubkey

\* The diff history holds a chain of diffs leading from root `from` to root `to`.
RECURSIVE HistoryPath(_, _, _, _)
HistoryPath(history, from, to, seen) ==
    /\ from \in DOMAIN history
    /\ from \notin seen
    /\ \/ history[from].next_root = to
       \/ HistoryPath(history, history[from].next_root, to, seen \cup {from})

(***************************************************************************)
(* C10: a keep-alive advertising, for a subscribed pair, a root other than *)
(* the cached one produces a SyncPubkeyOrderbookState request in which     *)
(* that pair carries the cached root; without such a pair no request is    *)
(* produced and last_keep_alive becomes the message timestamp; and the     *)
(* responder answers Delta exactly when its history holds a path from the  *)
(* requested root to its current root, FullTrie otherwise.                 *)
(***************************************************************************)
C10_KeepAliveSyncProtocol ==
    /\ bookLog.op = "keep_alive" =>
          LET mismatch == {pair \in bookLog.subscribed :
                              bookLog.message.trie_roots[pair] # bookLog.cached[pair]}
          IN  /\ \A pair \in mismatch :
                    /\ IsSome(bookLog.req)
                    /\ pair \in DOMAIN Unwrap(bookLog.req).trie_roots
                    /\ Unwrap(bookLog.req).trie_roots[pair] = bookLog.cached[pair]
              /\ mismatch = {} =>
                    /\ bookLog.req = None
                    /\ orderbook.pubkeys_state[bookLog.from_pubkey].last_keep_alive
                           = bookLog.message.timestamp
    /\ (bookLog.op = "sync_request" /\ bookLog.res.status = "ok") =>
          \A pair \in DOMAIN bookLog.trie_roots :
              LET state == orderbook.pubkeys_state[bookLog.pubkey]
              IN  bookLog.res.pair_orders_diff[pair].kind =
                     (IF HistoryPath(state.order_pairs_trie_state_history,
                                     bookLog.trie_roots[pair], state.trie_roots[pair], {})
                      THEN "Delta" ELSE "FullTrie")

(***************************************************************************)
(* The maker/taker handshake: messages, taker orders and their conversions *)
(***************************************************************************)
our_public_id == my_pubsecp

now_ms == nowSec * 1000

TAKER_ORDER_TIMEOUT == 30

ORDER_MATCH_TIMEOUT == 30

TakerConnect(taker_uuid, maker_uuid, sender, dest) ==
    [taker_order_uuid |-> taker_uuid, maker_order_uuid |-> maker_uuid,
     sender_pubkey |-> sender, dest_pub_key |-> dest]

MakerConnected(taker_uuid, maker_uuid, method, sender, dest) ==
    [taker_order_uuid |-> taker_uuid, maker_order_uuid |-> maker_uuid, method |-> method,
     sender_pubkey |-> sender, dest_pub_key |-> dest]

TakerMatch(reserved, connect, connected, last_updated) ==
    [reserved |-> reserved, connect |-> connect, connected |-> connected,
     last_updated |-> last_updated]

TakerOrder(created_at, request, order_type) ==
    [created_at |-> created_at, request |-> request, matches |-> <<>>,
     order_type |-> order_type]

\* The messages as they travel: new_protocol::* carries no pubkeys, the receiver takes
\* the sender from the signature and fills dest_pub_key with the default.
TakerRequestIntoProto(req) ==
    [type |-> "TakerRequest", base |-> req.base, rel |-> req.rel,
     base_amount |-> req.base_amount, rel_amount |-> req.rel_amount, action |-> req.action,
     uuid |-> req.uuid, match_by |-> req.match_by,
     conf_settings |-> Unwrap(req.conf_settings)]

TakerRequest_from_new_proto_and_pubkey(message, sender_pubkey) ==
    TakerRequest(message.base, message.rel, message.base_amount, message.rel_amount,
                 message.action, message.uuid, sender_pubkey, ZeroPubkey, message.match_by,
                 Some(message.conf_settings))

MakerReservedIntoProto(reserved) ==
    [type |-> "MakerReserved", base |-> reserved.base, rel |-> reserved.rel,
     base_amount |-> reserved.base_amount, rel_amount |-> reserved.rel_amount,
     taker_order_uuid |-> reserved.taker_order_uuid,
     maker_order_uuid |-> reserved.maker_order_uuid,
     conf_settings |-> Unwrap(reserved.conf_settings)]

MakerReserved_from_new_proto_and_pubkey(message, sender_pubkey) ==
    MakerReserved(message.base, message.rel, message.base_amount, message.rel_amount,
                  message.taker_order_uuid, message.maker_order_uuid, sender_pubkey,
                  ZeroPubkey, Some(message.conf_settings))

TakerConnectIntoProto(connect) ==
    [type |-> "TakerConnect", taker_order_uuid |-> connect.taker_order_uuid,
     maker_order_uuid |-> connect.maker_order_uuid]

TakerConnectFromProto(message) ==
    TakerConnect(message.taker_order_uuid, message.maker_order_uuid, ZeroPubkey, ZeroPubkey)

MakerConnectedIntoProto(connected) ==
    [type |-> "MakerConnected", taker_order_uuid |-> connected.taker_order_uuid,
     maker_order_uuid |-> connected.maker_order_uuid]

MakerConnectedFromProto(message) ==
    MakerConnected(message.taker_order_uuid, message.maker_order_uuid, "", ZeroPubkey,
                   ZeroPubkey)

can_match_with_maker_pubkey(req, maker_pubkey) ==
    req.match_by.type = "Pubkeys" => maker_pubkey \in req.match_by.data

can_match_with_uuid(req, uuid) ==
    req.match_by.type = "Orders" => uuid \in req.match_by.data

\* TakerOrder::match_reserved
match_reserved(order, reserved) ==
    IF order.request.match_by.type = "Orders"
       /\ reserved.maker_order_uuid \notin order.request.match_by.data
    THEN "NotMatched"
    ELSE IF order.request.match_by.type = "Pubkeys"
            /\ reserved.sender_pubkey \notin order.request.match_by.data
    THEN "NotMatched"
    ELSE LET my_base_amount == order.request.base_amount
             my_rel_amount == order.request.rel_amount
             other_base_amount == reserved.base_amount
             other_rel_amount == reserved.rel_amount
         IN  IF order.request.action = "Buy"
             THEN IF /\ order.request.base = reserved.base
                     /\ order.request.rel = reserved.rel
                     /\ my_base_amount = other_base_amount
                     /\ MmLe(other_rel_amount, my_rel_amount)
                  THEN "Matched" ELSE "NotMatched"
             ELSE IF /\ order.request.base = reserved.rel
                     /\ order.request.rel = reserved.base
                     /\ my_base_amount = other_rel_amount
                     /\ MmLe(my_rel_amount, other_base_amount)
                  THEN "Matched" ELSE "NotMatched"

reversed(settings) ==
    OrderConfirmationsSettings(settings.rel_confs, settings.rel_nota,
                               settings.base_confs, settings.base_nota)

TakerOrderIntoMakerOrder_as_sell(order, created_at) ==
    MakerOrder(order.request.base_amount, MmInt(0),
               MmDiv(order.request.rel_amount, order.request.base_amount), created_at,
               order.request.base, order.request.rel, order.request.uuid,
               order.request.conf_settings)

\* impl Into<MakerOrder> for TakerOrder
TakerOrderIntoMakerOrder(order, created_at) ==
    IF order.request.action = "Sell"
    THEN MakerOrder(order.request.base_amount, MmInt(0),
                    MmDiv(order.request.rel_amount, order.request.base_amount), created_at,
                    order.request.base, order.request.rel, order.request.uuid,
                    order.request.conf_settings)
    ELSE MakerOrder(order.request.rel_amount, MmInt(0),
                    MmDiv(order.request.base_amount, order.request.rel_amount), created_at,
                    order.request.rel, order.request.base, order.request.uuid,
                    IF IsSome(order.request.conf_settings)
                    THEN Some(reversed(Unwrap(order.request.conf_settings)))
                    ELSE None)

\* broadcast_ordermatch_message / broadcast_p2p_msg
Bcast(sent, message) ==
    MapPut(sent, message, IF message \in DOMAIN sent THEN sent[message] + 1 ELSE 1)

\* The coins of the node: MmCoinEnum::required_confirmations / requires_notarization.
MatchCoins ==
    [A |-> [confs |-> 1, nota |-> FALSE], B |-> [confs |-> 2, nota |-> TRUE]]

\* The order as MakerOrderCreated announces it, turned into an OrderbookItem.
MakerOrderCreatedItem(order) ==
    [OrderbookItem(my_pubsecp, order.base, order.rel, order.price, available_amount(order),
                   order.min_base_vol, order.uuid) EXCEPT !.created_at = nowSec]

MakerOrderCreatedMsg(order) ==
    [type |-> "MakerOrderCreated", order |-> MakerOrderCreatedItem(order)]

MakerOrderCancelledMsg(order) == [type |-> "MakerOrderCancelled", uuid |-> order.uuid]

\* Every message of the set handed to broadcast_ordermatch_message once.
BcastAll(sent, messages) ==
    [message \in DOMAIN sent \cup messages |->
        (IF message \in DOMAIN sent THEN sent[message] ELSE 0)
        + (IF message \in messages THEN 1 ELSE 0)]

\* maker_order_created_p2p_notify: what it does to the orderbook
maker_order_created_p2p_notify(ob, order) ==
    insert_or_update_order_update_trie(ob, MakerOrderCreatedItem(order), nowSec)

\* maker_order_updated_p2p_notify with process_my_maker_order_updated: the orderbook
maker_order_updated_p2p_notify(ob, message) ==
    IF message.uuid \in DOMAIN ob.order_set
    THEN insert_or_update_order_update_trie(
             ob, apply_updated(ob.order_set[message.uuid], message), nowSec)
    ELSE ob

\* maker_order_cancelled_p2p_notify with delete_my_order, for each of the orders
RECURSIVE CancelOrders(_, _)
CancelOrders(ob, uuids) ==
    IF uuids = {} THEN ob
    ELSE LET u == CHOOSE x \in uuids : TRUE
         IN  CancelOrders(remove_order_trie_update(ob, u, nowSec), uuids \ {u})

\* maker_order_created_p2p_notify for each of the orders
RECURSIVE AnnounceOrders(_, _, _)
AnnounceOrders(ob, orders, uuids) ==
    IF uuids = {} THEN ob
    ELSE LET u == CHOOSE x \in uuids : TRUE
         IN  AnnounceOrders(maker_order_created_p2p_notify(ob, orders[u]), orders,
                            uuids \ {u})

\* The conf_settings a MakerReserved carries: the order's own, or else the required
\* confirmations of the maker node's base and rel coins.
reserved_conf_settings_from_coins(order_confs, base_coin, rel_coin) ==
    Some(OrderConfirmationsSettings(base_coin.confs, base_coin.nota,
                                    rel_coin.confs, rel_coin.nota))

reserved_conf_settings(order_confs, base_coin, rel_coin) ==
    IF IsSome(order_confs) THEN order_confs
    ELSE Some(OrderConfirmationsSettings(base_coin.confs, base_coin.nota,
                                         rel_coin.confs, rel_coin.nota))

\* The MakerSwap lp_connect_start_bob runs and the TakerSwap lp_connected_alice runs.
MakerSwap(maker_match, maker_order) ==
    [role |-> "maker", uuid |-> maker_match.request.uuid, order |-> maker_order.uuid,
     maker_amount |-> maker_match.reserved.base_amount,
     taker_amount |-> maker_match.reserved.rel_amount,
     my_conf_settings |->
         choose_maker_confs_and_notas(maker_order.conf_settings, maker_match.request,
                                      MatchCoins[maker_match.reserved.base],
                                      MatchCoins[maker_match.reserved.rel])]

TakerSwap(taker_request, taker_match) ==
    [role |-> "taker", uuid |-> taker_match.reserved.taker_order_uuid,
     order |-> taker_request.uuid,
     maker_amount |-> taker_match.reserved.base_amount,
     taker_amount |-> taker_match.reserved.rel_amount,
     my_conf_settings |->
         choose_taker_confs_and_notas(taker_request, taker_match.reserved,
                                      MatchCoins[taker_match.reserved.base],
                                      MatchCoins[taker_match.reserved.rel])]

(***************************************************************************)
(* The three tests the handshake handlers guard their effects with.        *)
(***************************************************************************)
reservation_is_new_unguarded(order, taker_request) == TRUE

\* process_taker_request: if !order.matches.contains_key(&taker_request.uuid)
reservation_is_new(order, taker_request) == taker_request.uuid \notin DOMAIN order.matches

reserved_is_accepted_while_matched(my_order, reserved_msg) ==
    match_reserved(my_order, reserved_msg) = "Matched"

\* process_maker_reserved: match_reserved(..) == Matched && my_order.matches.is_empty()
reserved_is_accepted(my_order, reserved_msg) ==
    match_reserved(my_order, reserved_msg) = "Matched" /\ my_order.matches = <<>>

connect_is_first_unguarded(order_match) == TRUE

\* process_taker_connect: order_match.connected.is_none() && order_match.connect.is_none()
connect_is_first(order_match) == order_match.connected = None /\ order_match.connect = None

(***************************************************************************)
(* Spec: one node, maker and taker at once, and the messages of its peers. *)
(***************************************************************************)
MaxMatchSteps == 5

MaxMatchTicks == 3

MatchTickSecs == 15

MatchMakerUuids == {"m1", "m2"}

MatchTakerUuids == {"o1"}

MatchConfs == OrderConfirmationsSettings(1, FALSE, 2, TRUE)

\* The TakerRequest messages of the peer alice.
PeerTakerRequests ==
    {TakerRequestIntoProto(
         TakerRequest(shape[1], shape[2], MmInt(shape[3]), MmInt(shape[4]), shape[5], uuid,
                      "alice", ZeroPubkey, MatchByAny, Some(MatchConfs))) :
        shape \in {<<"A", "B", 5, 5, "Buy">>, <<"A", "B", 10, 10, "Buy">>,
                   <<"B", "A", 20, 1, "Sell">>},
        uuid \in {"t1", "t2"}}

\* The MakerReserved messages of the peers bob (order x1) and carol (order x2).
PeerMakerReserved ==
    {MakerReservedIntoProto(
         MakerReserved(shape[1], shape[2], MmInt(shape[3]), MmInt(shape[4]), taker_uuid,
                       maker_uuid, "", ZeroPubkey, Some(MatchConfs))) :
        shape \in {<<"A", "B", 5, 5>>, <<"B", "A", 5, 5>>, <<"A", "B", 4, 4>>},
        taker_uuid \in MatchTakerUuids, maker_uuid \in {"x1", "x2"}}

PeerOrderOwner == [x1 |-> "bob", x2 |-> "carol"]

PeerTakerConnects ==
    {TakerConnectIntoProto(TakerConnect(taker_uuid, maker_uuid, "", "")) :
        taker_uuid \in {"t1", "t2"}, maker_uuid \in MatchMakerUuids}

PeerMakerConnecteds ==
    {MakerConnectedIntoProto(MakerConnected(taker_uuid, maker_uuid, "", "", "")) :
        taker_uuid \in MatchTakerUuids, maker_uuid \in {"x1", "x2"}}

\* hit: the message passed every check before the handler's last test;
\* done: it passed that test too and the handler acted on it.
MatchLog(op, taker_uuid, maker_uuid, hit, done) ==
    [op |-> op, taker_order_uuid |-> taker_uuid, maker_order_uuid |-> maker_uuid,
     hit |-> hit, done |-> done]

Init ==
    /\ FnIdle
    /\ BookIdle
    /\ MatchIdle
    /\ TezIdle

MatchStep ==
    /\ matchSteps < MaxMatchSteps
    /\ matchSteps' = matchSteps + 1
    /\ UNCHANGED <<fnVars, pendingSync, bookLog, bookPanic, bookSteps, tezVars>>

subscribe_to_orderbook_topic(ob, base, rel) ==
    [ob EXCEPT !.topics_subscribed_to =
        @ \cup {orderbook_topic_from_ordered_pair(alb_ordered_pair(base, rel))}]

\* The orders set_price removes when cancel_previous is set.
previous_orders(orders, base, rel, cancel_previous) ==
    IF cancel_previous
    THEN {u \in DOMAIN orders : orders[u].base = base /\ orders[u].rel = rel}
    ELSE {}

\* set_price, past its balance checks
\* MmNumber::from(MIN_TRADING_VOL), "0.00777"
MIN_TRADING_VOL == Rat(777, 100000)

\* MmNumber::from(BigRational::new(1.into(), 100_000_000.into()))
min_price == Rat(1, 100000000)

\* TakerRequestBuilder::build: the error it returns, None when it builds
TakerRequestBuildError(base, rel, base_amount, rel_amount, sender_pubkey, conf_settings) ==
    IF base = "" THEN Some("BaseCoinEmpty")
    ELSE IF rel = "" THEN Some("RelCoinEmpty")
    ELSE IF base = rel THEN Some("BaseEqualRel")
    ELSE IF MmLt(base_amount, MIN_TRADING_VOL) THEN Some("BaseAmountTooLow")
    ELSE IF MmLt(rel_amount, MIN_TRADING_VOL) THEN Some("RelAmountTooLow")
    ELSE IF sender_pubkey = ZeroPubkey THEN Some("SenderPubkeyIsZero")
    ELSE IF conf_settings = None THEN Some("ConfsSettingsNotSet")
    ELSE None

\* MakerOrderBuilder::build: the error it returns, None when it builds
MakerOrderBuildError(base, rel, max_base_vol, min_base_vol, price, conf_settings) ==
    IF base = "" THEN Some("BaseCoinEmpty")
    ELSE IF rel = "" THEN Some("RelCoinEmpty")
    ELSE IF base = rel THEN Some("BaseEqualRel")
    ELSE IF MmLt(max_base_vol, MIN_TRADING_VOL) THEN Some("MaxBaseVolTooLow")
    ELSE IF MmLt(price, min_price) THEN Some("PriceTooLow")
    ELSE IF MmLt(MmMul(max_base_vol, price), MIN_TRADING_VOL) THEN Some("RelVolTooLow")
    ELSE IF MmLt(min_base_vol, MIN_TRADING_VOL) THEN Some("MinBaseVolTooLow")
    ELSE IF conf_settings = None THEN Some("ConfSettingsNotSet")
    ELSE None

\* an RPC that returned Err(error)
Rejected(method, error) == [op |-> "rejected", method |-> method, error |-> error]

\* set_price with the request's base, rel, volume, min_volume, price and
\* cancel_previous; both coins are enabled and the balance suffices
set_price(uuid, req) ==
    \E conf_settings \in {Some(OrderConfirmationsSettings(
                              MatchCoins["A"].confs, MatchCoins["A"].nota,
                              MatchCoins["B"].confs, MatchCoins["B"].nota))} :
    \E error \in {MakerOrderBuildError(req.base, req.rel, req.volume, req.min_volume,
                                       req.price, conf_settings)} :
    \E new_order \in {MakerOrder(req.volume, req.min_volume, req.price, now_ms, req.base,
                                 req.rel, uuid, conf_settings)} :
    \E previous \in {previous_orders(my_maker_orders, req.base, req.rel,
                                     req.cancel_previous)} :
        /\ MatchStep
        /\ IF error # None
           THEN /\ matchLog' = Rejected("setprice", Unwrap(error))
                /\ UNCHANGED <<usedUuids, my_maker_orders, orderFiles, orderbook, broadcast>>
           ELSE /\ uuid \notin usedUuids
                /\ usedUuids' = usedUuids \cup {uuid}
                /\ my_maker_orders' = MapPut(MapDel(my_maker_orders, previous), uuid, new_order)
                /\ orderFiles' = [orderFiles EXCEPT
                                     !.maker = MapDel(MapPut(@, uuid, new_order), previous)]
                /\ orderbook' = CancelOrders(
                                    maker_order_created_p2p_notify(
                                        subscribe_to_orderbook_topic(orderbook, req.base,
                                                                     req.rel), new_order),
                                    previous)
                /\ broadcast' = BcastAll(Bcast(broadcast, MakerOrderCreatedMsg(new_order)),
                                         {MakerOrderCancelledMsg(my_maker_orders[u]) :
                                             u \in previous})
                /\ matchLog' = NoLog
        /\ UNCHANGED <<my_taker_orders, swaps, loopPc, nowSec>>

SetPrice ==
    \E uuid \in MatchMakerUuids \ usedUuids : \E cancel_previous \in BOOLEAN :
        set_price(uuid, [base |-> "A", rel |-> "B", volume |-> MmInt(10),
                         min_volume |-> MmInt(1), price |-> MmInt(1),
                         cancel_previous |-> cancel_previous])

AutoBuyPrices == {1, 2}

\* lp_auto_buy, past its balance checks
\* lp_auto_buy with the input's base, rel, volume, price and method
lp_auto_buy(uuid, input, order_type) ==
    \E conf_settings \in {Some(OrderConfirmationsSettings(
                              MatchCoins["A"].confs, MatchCoins["A"].nota,
                              MatchCoins["B"].confs, MatchCoins["B"].nota))} :
    \E price_too_low \in {MmLt(input.price, min_price)} :
    \E rel_volume \in {IF price_too_low THEN MmInt(0)
                       ELSE MmMul(input.volume, input.price)} :
    \E error \in {TakerRequestBuildError(input.base, input.rel, input.volume, rel_volume,
                                         our_public_id, conf_settings)} :
    \E request \in {TakerRequest(input.base, input.rel, input.volume, rel_volume,
                                 IF input.method = "buy" THEN "Buy" ELSE "Sell", uuid,
                                 our_public_id, ZeroPubkey, MatchByAny, conf_settings)} :
    \E order \in {TakerOrder(now_ms, request, order_type)} :
        /\ MatchStep
        /\ IF price_too_low
           THEN /\ matchLog' = Rejected(input.method, "Price is too low")
                /\ UNCHANGED <<usedUuids, orderbook, broadcast, orderFiles, my_taker_orders>>
           ELSE IF error # None
           THEN /\ orderbook' = subscribe_to_orderbook_topic(orderbook, input.base,
                                                             input.rel)
                /\ matchLog' = Rejected(input.method, Unwrap(error))
                /\ UNCHANGED <<usedUuids, broadcast, orderFiles, my_taker_orders>>
           ELSE /\ uuid \notin usedUuids
                /\ usedUuids' = usedUuids \cup {uuid}
                /\ orderbook' = subscribe_to_orderbook_topic(orderbook, input.base,
                                                             input.rel)
                /\ broadcast' = Bcast(broadcast, TakerRequestIntoProto(request))
                /\ orderFiles' = [orderFiles EXCEPT !.taker = MapPut(@, uuid, order)]
                /\ my_taker_orders' = MapPut(my_taker_orders, uuid, order)
                /\ matchLog' = NoLog
        /\ UNCHANGED <<my_maker_orders, swaps, loopPc, nowSec>>

LpAutoBuy ==
    \E uuid \in MatchTakerUuids \ usedUuids : \E action \in {"buy", "sell"} :
    \E order_type \in {"GoodTillCancelled", "FillOrKill"} : \E price \in AutoBuyPrices :
        lp_auto_buy(uuid, [base |-> "A", rel |-> "B", volume |-> MmInt(5),
                           price |-> MmInt(price), method |-> action], order_type)

\* process_taker_request. Any of the orders the request matches may be the one the
\* iteration over my_maker_orders meets first.
TakerRequestHandled(message, sender_pubkey, banned, coins_found) ==
        LET taker_request == TakerRequest_from_new_proto_and_pubkey(message, sender_pubkey)
            matching == {u \in DOMAIN my_maker_orders :
                            /\ can_match_with_uuid(taker_request, u)
                            /\ match_with_request(my_maker_orders[u], taker_request).matched}
            handled == ~banned
                       /\ our_public_id # taker_request.dest_pub_key
                       /\ can_match_with_maker_pubkey(taker_request, our_public_id)
                       /\ coins_found
        IN  /\ MatchStep
            /\ IF handled /\ matching # {}
               THEN \E uuid \in matching :
                      LET order == my_maker_orders[uuid]
                          res == match_with_request(order, taker_request)
                          reserved ==
                              MakerReserved(order.base, order.rel, res.base_amount,
                                  res.rel_amount, taker_request.uuid, uuid, our_public_id,
                                  taker_request.sender_pubkey,
                                  reserved_conf_settings(order.conf_settings,
                                      MatchCoins[order.base], MatchCoins[order.rel]))
                          maker_match == MakerMatch(taker_request, reserved, None, None, now_ms)
                          new_order == [order EXCEPT !.matches =
                                           MapPut(@, taker_request.uuid, maker_match)]
                      IN  /\ matchLog' = MatchLog("TakerRequest", taker_request.uuid, uuid, TRUE,
                                                   reservation_is_new(order, taker_request))
                          /\ IF reservation_is_new(order, taker_request)
                             THEN /\ broadcast' = Bcast(broadcast, MakerReservedIntoProto(reserved))
                                  /\ my_maker_orders' = MapPut(my_maker_orders, uuid, new_order)
                                  /\ orderFiles' = [orderFiles EXCEPT
                                                       !.maker = MapPut(@, uuid, new_order)]
                             ELSE UNCHANGED <<broadcast, my_maker_orders, orderFiles>>
               ELSE /\ matchLog' = MatchLog("TakerRequest", taker_request.uuid, "", FALSE, FALSE)
                    /\ UNCHANGED <<broadcast, my_maker_orders, orderFiles>>
            /\ UNCHANGED <<my_taker_orders, swaps, usedUuids, loopPc, orderbook, nowSec>>

ProcessTakerRequest ==
    \E message \in PeerTakerRequests : \E banned \in BOOLEAN : \E coins_found \in BOOLEAN :
        TakerRequestHandled(message, "alice", banned, coins_found)

\* process_maker_reserved
ProcessMakerReserved ==
    \E message \in PeerMakerReserved : \E banned \in BOOLEAN :
        LET reserved_msg == MakerReserved_from_new_proto_and_pubkey(
                                message, PeerOrderOwner[message.maker_order_uuid])
            uuid == reserved_msg.taker_order_uuid
            known == ~banned /\ uuid \in DOMAIN my_taker_orders
            accepted == known /\ reserved_is_accepted(my_taker_orders[uuid], reserved_msg)
        IN  /\ MatchStep
            /\ matchLog' = MatchLog("MakerReserved", uuid, reserved_msg.maker_order_uuid,
                                    known /\ match_reserved(my_taker_orders[uuid],
                                                            reserved_msg) = "Matched",
                                    accepted)
            /\ IF accepted
               THEN LET my_order == my_taker_orders[uuid]
                        connect == TakerConnect(uuid, reserved_msg.maker_order_uuid,
                                                our_public_id, reserved_msg.sender_pubkey)
                        taker_match == TakerMatch(reserved_msg, connect, None, now_ms)
                        new_order == [my_order EXCEPT !.matches =
                                         MapPut(@, reserved_msg.maker_order_uuid, taker_match)]
                    IN  /\ broadcast' = Bcast(broadcast, TakerConnectIntoProto(connect))
                        /\ my_taker_orders' = MapPut(my_taker_orders, uuid, new_order)
                        /\ orderFiles' = [orderFiles EXCEPT !.taker = MapPut(@, uuid, new_order)]
               ELSE UNCHANGED <<broadcast, my_taker_orders, orderFiles>>
            /\ UNCHANGED <<my_maker_orders, swaps, usedUuids, loopPc, orderbook, nowSec>>

\* process_taker_connect: the order once the match is connected
connect_order(my_order, connect_msg) ==
    LET t == connect_msg.taker_order_uuid
        connected == MakerConnected(t, connect_msg.maker_order_uuid, "connected",
                                    our_public_id, connect_msg.sender_pubkey)
    IN  [my_order EXCEPT !.matches[t].connect = Some(connect_msg),
                         !.matches[t].connected = Some(connected),
                         !.started_swaps = Append(@, my_order.matches[t].request.uuid)]

\* process_taker_connect, with the swap lp_connect_start_bob spawns
ProcessTakerConnect ==
    \E message \in PeerTakerConnects : \E sender_pubkey \in {"alice", "mallory"} :
    \E coins_found \in BOOLEAN :
        LET connect_msg == TakerConnectFromProto(message)
            m == connect_msg.maker_order_uuid
            t == connect_msg.taker_order_uuid
            known == /\ m \in DOMAIN my_maker_orders
                     /\ t \in DOMAIN my_maker_orders[m].matches
                     /\ my_maker_orders[m].matches[t].request.sender_pubkey = sender_pubkey
            first == known /\ connect_is_first(my_maker_orders[m].matches[t])
        IN  /\ MatchStep
            /\ matchLog' = MatchLog("TakerConnect", t, m, known, first)
            /\ IF first
               THEN \E my_order \in {connect_order(my_maker_orders[m], connect_msg)} :
                    \E volume_left \in {MmGe(available_amount(my_order),
                                             my_order.min_base_vol)} :
                    \E updated_msg \in {MakerOrderUpdated(my_order.uuid, None,
                                            Some(available_amount(my_order)), None)} :
                        /\ my_maker_orders' = MapPut(my_maker_orders, m, my_order)
                        /\ swaps' = IF coins_found
                                    THEN Bcast(swaps, MakerSwap(my_order.matches[t], my_order))
                                    ELSE swaps
                        /\ orderbook' = IF volume_left
                                        THEN maker_order_updated_p2p_notify(orderbook,
                                                                            updated_msg)
                                        ELSE orderbook
                        /\ broadcast' =
                              BcastAll(Bcast(broadcast,
                                             MakerConnectedIntoProto(
                                                 Unwrap(my_order.matches[t].connected))),
                                       IF volume_left
                                       THEN {[type |-> "MakerOrderUpdated",
                                              message |-> updated_msg]}
                                       ELSE {})
                        /\ orderFiles' = [orderFiles EXCEPT !.maker = MapPut(@, m, my_order)]
               ELSE UNCHANGED <<my_maker_orders, swaps, orderbook, broadcast, orderFiles>>
            /\ UNCHANGED <<my_taker_orders, usedUuids, loopPc, nowSec>>

\* process_maker_connected, with the swap lp_connected_alice spawns
MakerConnectedHandled(message, from_pubkey, coins_found) ==
        LET connected == MakerConnectedFromProto(message)
            t == connected.taker_order_uuid
            m == connected.maker_order_uuid
            known == /\ t \in DOMAIN my_taker_orders
                     /\ m \in DOMAIN my_taker_orders[t].matches
                     /\ my_taker_orders[t].matches[m].reserved.sender_pubkey = from_pubkey
        IN  /\ MatchStep
            /\ matchLog' = MatchLog("MakerConnected", t, m, known, known)
            /\ IF known
               THEN /\ swaps' = IF coins_found
                                THEN Bcast(swaps, TakerSwap(my_taker_orders[t].request,
                                                            my_taker_orders[t].matches[m]))
                                ELSE swaps
                    /\ orderFiles' = [orderFiles EXCEPT
                                         !.taker = MapDel(@, {my_taker_orders[t].request.uuid})]
                    /\ my_taker_orders' = MapDel(my_taker_orders, {t})
               ELSE UNCHANGED <<swaps, orderFiles, my_taker_orders>>
            /\ UNCHANGED <<my_maker_orders, broadcast, usedUuids, loopPc, orderbook, nowSec>>

ProcessMakerConnected ==
    \E message \in PeerMakerConnecteds : \E from_pubkey \in {"bob", "carol"} :
    \E coins_found \in BOOLEAN :
        MakerConnectedHandled(message, from_pubkey, coins_found)

\* lp_ordermatch_loop: the taker orders that timed out, and those of them that become
\* maker orders
timed_out_taker_orders(takers) ==
    {u \in DOMAIN takers : takers[u].created_at + TAKER_ORDER_TIMEOUT * 1000 < now_ms}

converted_taker_orders(takers) ==
    {u \in timed_out_taker_orders(takers) :
        takers[u].matches = <<>> /\ takers[u].order_type = "GoodTillCancelled"}

\* lp_ordermatch_loop: order.matches.retain(..)
retain_matches(order) ==
    [order EXCEPT !.matches =
        MapDel(@, {t \in DOMAIN @ :
                      ~(\/ @[t].last_updated + ORDER_MATCH_TIMEOUT * 1000 > now_ms
                        \/ @[t].connected # None)})]

\* lp_ordermatch_loop: the test that cancels a maker order
is_unfillable(order) ==
    MmLt(available_amount(order), order.min_base_vol) /\ ~has_ongoing_matches(order)

\* lp_ordermatch_loop, first block: timed out taker orders, timed out matches, and
\* maker orders that cannot be filled any more.
LoopMatches ==
    \E timed_out \in {timed_out_taker_orders(my_taker_orders)} :
    \E converted \in {converted_taker_orders(my_taker_orders)} :
    \E makers1 \in {[u \in DOMAIN my_maker_orders \cup converted |->
                        IF u \in converted
                        THEN TakerOrderIntoMakerOrder(my_taker_orders[u], now_ms)
                        ELSE my_maker_orders[u]]} :
    \E makers2 \in {[u \in DOMAIN makers1 |-> retain_matches(makers1[u])]} :
    \E changed \in {{u \in DOMAIN makers1 : makers2[u] # makers1[u]}} :
    \E to_cancel \in {{u \in DOMAIN makers2 : is_unfillable(makers2[u])}} :
        /\ MatchStep
        /\ loopPc = 1
        /\ loopPc' = 2
        /\ my_taker_orders' = MapDel(my_taker_orders, timed_out)
        /\ my_maker_orders' = MapDel(makers2, to_cancel)
        /\ orderFiles' =
              [maker |-> MapDel([u \in DOMAIN orderFiles.maker \cup converted \cup changed |->
                                    IF u \in changed THEN makers2[u]
                                    ELSE IF u \in converted THEN makers1[u]
                                    ELSE orderFiles.maker[u]],
                                to_cancel),
               taker |-> MapDel(orderFiles.taker, timed_out)]
        /\ orderbook' = CancelOrders(AnnounceOrders(orderbook, makers1, converted), to_cancel)
        /\ broadcast' = BcastAll(BcastAll(broadcast,
                                          {MakerOrderCreatedMsg(makers1[u]) : u \in converted}),
                                 {MakerOrderCancelledMsg(makers2[u]) : u \in to_cancel})
        /\ matchLog' = NoLog
        /\ UNCHANGED <<swaps, usedUuids, nowSec>>

\* lp_ordermatch_loop, second block: the pubkeys that stopped sending keep-alives
LoopPurge ==
    /\ MatchStep
    /\ loopPc = 2
    /\ loopPc' = 3
    /\ orderbook' = purge_timed_out_pubkeys(orderbook, my_pubsecp, nowSec)
    /\ matchLog' = NoLog
    /\ UNCHANGED <<my_maker_orders, my_taker_orders, orderFiles, broadcast, swaps, usedUuids,
                   nowSec>>

\* lp_ordermatch_loop, third block: own orders missing from the orderbook are announced
LoopAnnounce ==
    \E coins_found \in BOOLEAN :
    \E missing \in {{u \in DOMAIN my_maker_orders :
                        coins_found /\ u \notin DOMAIN orderbook.order_set}} :
        /\ MatchStep
        /\ loopPc = 3
        /\ loopPc' = 1
        /\ orderbook' = AnnounceOrders(orderbook, my_maker_orders, missing)
        /\ broadcast' = BcastAll(broadcast,
                                 {MakerOrderCreatedMsg(my_maker_orders[u]) : u \in missing})
        /\ matchLog' = NoLog
        /\ UNCHANGED <<my_maker_orders, my_taker_orders, orderFiles, swaps, usedUuids,
                       nowSec>>

\* Time passes.
MatchTick ==
    /\ MatchStep
    /\ \E k \in 1..MaxMatchTicks :
          /\ nowSec + k * MatchTickSecs <= MaxMatchTicks * MatchTickSecs
          /\ nowSec' = nowSec + k * MatchTickSecs
    /\ matchLog' = NoLog
    /\ UNCHANGED <<my_maker_orders, my_taker_orders, orderFiles, broadcast, swaps, usedUuids,
                   loopPc, orderbook>>

Next ==
    \/ SetPrice
    \/ LpAutoBuy
    \/ ProcessTakerRequest
    \/ ProcessMakerReserved
    \/ ProcessTakerConnect
    \/ ProcessMakerConnected
    \/ LoopMatches
    \/ LoopPurge
    \/ LoopAnnounce
    \/ MatchTick

Spec == Init /\ [][Next]_vars

\* How often the messages of the set were broadcast, and the swaps of the set started.
RECURSIVE SumCounts(_, _)
SumCounts(counts, keys) ==
    IF keys = {} THEN 0
    ELSE LET k == CHOOSE x \in keys : TRUE
         IN  counts[k] + SumCounts(counts, keys \ {k})

SentIn(sent, type, taker_uuid, maker_uuid) ==
    SumCounts(sent, {msg \in DOMAIN sent :
                        /\ msg.type = type
                        /\ msg.taker_order_uuid = taker_uuid
                        /\ msg.maker_order_uuid = maker_uuid})

SentFor(type, taker_uuid, maker_uuid) == SentIn(broadcast, type, taker_uuid, maker_uuid)

SwapsStarted(role, order_uuid, swap_uuid) ==
    SumCounts(swaps, {swap \in DOMAIN swaps :
                         swap.role = role /\ swap.order = order_uuid /\ swap.uuid = swap_uuid})

AllMakerUuids == MatchMakerUuids \cup MatchTakerUuids

PeerMakerUuids == DOMAIN PeerOrderOwner

PeerTakerUuids == {message.uuid : message \in PeerTakerRequests}

(***************************************************************************)
(* C1: for every local maker order the reserved base amounts of its        *)
(* matches never sum to more than max_base_vol: available_amount() is      *)
(* never negative.                                                         *)
(***************************************************************************)
C1_ReservedWithinMaxBaseVol ==
    \A uuid \in DOMAIN my_maker_orders :
        MmGe(available_amount(my_maker_orders[uuid]), MmInt(0))

(***************************************************************************)
(* C2: a taker order holds at most one match and TakerConnect is broadcast *)
(* at most once for it; a step that adds a match to a taker order finds    *)
(* the order without matches and adds a reservation match_reserved accepts.*)
(***************************************************************************)
C2_TakerOrderMatchedOnce ==
    /\ [](\A uuid \in MatchTakerUuids :
            /\ uuid \in DOMAIN my_taker_orders =>
                  Cardinality(DOMAIN my_taker_orders[uuid].matches) <= 1
            /\ SumCounts(broadcast, {msg \in DOMAIN broadcast :
                                        /\ msg.type = "TakerConnect"
                                        /\ msg.taker_order_uuid = uuid}) <= 1)
    /\ [][\A uuid \in DOMAIN my_taker_orders :
            (/\ uuid \in DOMAIN my_taker_orders'
             /\ my_taker_orders'[uuid].matches # my_taker_orders[uuid].matches)
            => /\ my_taker_orders[uuid].matches = <<>>
               /\ \E m \in PeerMakerUuids :
                     /\ DOMAIN my_taker_orders'[uuid].matches = {m}
                     /\ match_reserved(my_taker_orders[uuid],
                                       my_taker_orders'[uuid].matches[m].reserved) = "Matched"
          ]_vars

\* A second maker's matching reservation reached the taker order that was matched already.
C2_Witness ==
    /\ matchLog.op = "MakerReserved"
    /\ matchLog.hit
    /\ ~matchLog.done
    /\ matchLog.taker_order_uuid \in DOMAIN my_taker_orders
    /\ matchLog.maker_order_uuid
           \notin DOMAIN my_taker_orders[matchLog.taker_order_uuid].matches
    /\ Cardinality(DOMAIN my_taker_orders[matchLog.taker_order_uuid].matches) = 1

(***************************************************************************)
(* C3: for each (maker order, taker order uuid) MakerConnected is          *)
(* broadcast and the maker swap started at most once; a TakerConnect for a *)
(* match that has connect/connected set sends nothing and changes nothing; *)
(* at most one taker swap is started per taker order.                      *)
(***************************************************************************)
C3_ConnectedOnce ==
    /\ [](/\ \A m \in AllMakerUuids : \A t \in PeerTakerUuids :
                /\ SentFor("MakerConnected", t, m) <= 1
                /\ SwapsStarted("maker", m, t) <= 1
          /\ \A t \in MatchTakerUuids : SwapsStarted("taker", t, t) <= 1)
    /\ [][(/\ matchSteps' # matchSteps
           /\ matchLog'.op = "TakerConnect"
           /\ matchLog'.maker_order_uuid \in DOMAIN my_maker_orders
           /\ matchLog'.taker_order_uuid
                  \in DOMAIN my_maker_orders[matchLog'.maker_order_uuid].matches
           /\ LET order_match == my_maker_orders[matchLog'.maker_order_uuid]
                                     .matches[matchLog'.taker_order_uuid]
              IN  order_match.connect # None \/ order_match.connected # None)
          => UNCHANGED <<my_maker_orders, my_taker_orders, orderFiles, broadcast, swaps,
                         orderbook>>
         ]_vars

\* A TakerConnect from the taker arrived again after the match was connected.
C3_Witness ==
    /\ matchLog.op = "TakerConnect"
    /\ matchLog.hit
    /\ ~matchLog.done
    /\ SentFor("MakerConnected", matchLog.taker_order_uuid, matchLog.maker_order_uuid) = 1
    /\ SwapsStarted("maker", matchLog.maker_order_uuid, matchLog.taker_order_uuid) = 1

(***************************************************************************)
(* C4: a TakerRequest received while a maker order holds a match keyed by  *)
(* its uuid broadcasts no MakerReserved of that order for that uuid and    *)
(* leaves the order, its matches and so its available_amount, unchanged.   *)
(***************************************************************************)
C4_TakerRequestIdempotent ==
    [][(matchSteps' # matchSteps /\ matchLog'.op = "TakerRequest")
       => \A m \in DOMAIN my_maker_orders :
             matchLog'.taker_order_uuid \in DOMAIN my_maker_orders[m].matches
             => /\ m \in DOMAIN my_maker_orders'
                /\ my_maker_orders'[m] = my_maker_orders[m]
                /\ SentIn(broadcast', "MakerReserved", matchLog'.taker_order_uuid, m)
                       = SentIn(broadcast, "MakerReserved", matchLog'.taker_order_uuid, m)
      ]_vars

\* The request matched the order that already holds the match for its uuid.
C4_Witness ==
    /\ matchLog.op = "TakerRequest"
    /\ matchLog.hit
    /\ ~matchLog.done
    /\ matchLog.taker_order_uuid
           \in DOMAIN my_maker_orders[matchLog.maker_order_uuid].matches
    /\ SentFor("MakerReserved", matchLog.taker_order_uuid, matchLog.maker_order_uuid) = 1

(***************************************************************************)
(* SpecHistory: the tries and the diff history of one peer, p1, under its  *)
(* own gossip, and the answers to SyncPubkeyOrderbookState requests.       *)
(***************************************************************************)
MaxHistorySteps == 6

HistoryPubkey == "p1"

HistoryStep ==
    /\ ~bookPanic
    /\ bookSteps < MaxHistorySteps
    /\ bookSteps' = bookSteps + 1
    /\ UNCHANGED <<fnVars, matchVars, nowSec, pendingSync, bookPanic, tezVars>>

\* process_msg, MakerOrderCreated
HistoryMakerOrderCreated ==
    \E order \in BookCreated(HistoryPubkey) :
        /\ HistoryStep
        /\ orderbook' = insert_or_update_order_update_trie(orderbook, order, nowSec)
        /\ bookLog' = NoLog

\* process_maker_order_updated
HistoryMakerOrderUpdated ==
    \E updated_msg \in BookUpdates :
    \E found \in {find_order_by_uuid_and_pubkey(orderbook, updated_msg.uuid, HistoryPubkey)} :
        /\ HistoryStep
        /\ IsSome(found)
        /\ orderbook' = insert_or_update_order_update_trie(
                            orderbook, apply_updated(Unwrap(found), updated_msg), nowSec)
        /\ bookLog' = NoLog

\* delete_order, on MakerOrderCancelled
HistoryMakerOrderCancelled ==
    \E uuid \in BookUuids :
        /\ HistoryStep
        /\ uuid \in DOMAIN orderbook.order_set
        /\ orderbook.order_set[uuid].pubkey = HistoryPubkey
        /\ orderbook' = remove_order_trie_update(orderbook, uuid, nowSec)
        /\ bookLog' = NoLog

\* process_sync_pubkey_orderbook_state, answering a peer's request
HistorySyncRequest ==
    \E trie_roots \in BookRootMaps(HistoryPubkey) :
    \E pairs \in Permutations2(DOMAIN trie_roots) :
        /\ HistoryStep
        /\ bookLog' = [op |-> "sync_request", pubkey |-> HistoryPubkey,
                       trie_roots |-> trie_roots,
                       res |-> process_sync_pubkey_orderbook_state(orderbook, HistoryPubkey,
                                                                   trie_roots, pairs)]
        /\ UNCHANGED orderbook

HistoryNext ==
    \/ HistoryMakerOrderCreated
    \/ HistoryMakerOrderUpdated
    \/ HistoryMakerOrderCancelled
    \/ HistorySyncRequest

SpecHistory == BookInit /\ [][HistoryNext]_vars

\* The root is the root of a trie of (pubkey, pair): every order in it is one of that
\* pubkey for that pair.  The root of the empty trie is such a root for every pair.
IsRootOfPair(root, pubkey, pair) ==
    /\ ~root.default
    /\ \A uuid \in DOMAIN root.kv :
          /\ root.kv[uuid].uuid = uuid
          /\ root.kv[uuid].pubkey = pubkey
          /\ alb_ordered_pair(root.kv[uuid].base, root.kv[uuid].rel) = pair

(***************************************************************************)
(* C11: whenever the responder answers Delta for a (pubkey, pair) from a   *)
(* root A of a trie of that pubkey and pair, applying the delta to the     *)
(* key/value set with root A gives the responder's current key/value set   *)
(* of that pubkey and pair.                                                *)
(***************************************************************************)
C11_DeltaLeadsToCurrentTrie ==
    (bookLog.op = "sync_request" /\ bookLog.res.status = "ok") =>
        \A pair \in DOMAIN bookLog.trie_roots :
            (/\ bookLog.res.pair_orders_diff[pair].kind = "Delta"
             /\ IsRootOfPair(bookLog.trie_roots[pair], bookLog.pubkey, pair)) =>
                ApplyDelta(bookLog.trie_roots[pair].kv,
                           DeltaEntries(bookLog.res.pair_orders_diff[pair].delta, UuidOrder))
                    = orderbook.pubkeys_state[bookLog.pubkey].trie_roots[pair].kv

(***************************************************************************)
(* SpecPurge: the orders of the peer p1, learned from gossip and from      *)
(* keep-alive synchronisation, the local node's own order, and the purge   *)
(* of timed out pubkeys.  The peer and the local node use different uuids. *)
(***************************************************************************)
MaxPurgeSteps == 5

PurgePeer == "p1"

PurgeCreated ==
    {OrderbookItem(PurgePeer, "A", "B", MmInt(1), MmInt(1), MmInt(0), "u2"),
     OrderbookItem(my_pubsecp, "A", "B", MmInt(1), MmInt(1), MmInt(0), "u1")}

PurgeStep ==
    /\ ~bookPanic
    /\ bookSteps < MaxPurgeSteps
    /\ bookSteps' = bookSteps + 1
    /\ bookLog' = NoLog
    /\ UNCHANGED <<fnVars, matchVars, tezVars>>

\* process_msg, MakerOrderCreated (and maker_order_created_p2p_notify for this node's own).
PurgeMakerOrderCreated ==
    \E order \in PurgeCreated :
        /\ PurgeStep
        /\ orderbook' = insert_or_update_order_update_trie(orderbook, order, nowSec)
        /\ UNCHANGED <<nowSec, pendingSync, bookPanic>>

\* subscribe_to_orderbook_topic
PurgeSubscribe ==
    /\ PurgeStep
    /\ orderbook' = [orderbook EXCEPT !.topics_subscribed_to =
                        @ \cup {orderbook_topic_from_ordered_pair(<<"A", "B">>)}]
    /\ UNCHANGED <<nowSec, pendingSync, bookPanic>>

\* process_orders_keep_alive up to the request it sends
PurgeKeepAlive ==
    \E trie_roots \in BookRootMaps(PurgePeer) : \E timestamp \in {0, nowSec} :
    \E res \in {process_keep_alive(orderbook, PurgePeer,
                                   PubkeyKeepAlive(trie_roots, timestamp), nowSec)} :
        /\ PurgeStep
        /\ pendingSync = None
        /\ orderbook' = res.ob
        /\ pendingSync' = res.req
        /\ UNCHANGED <<nowSec, bookPanic>>

\* process_orders_keep_alive from the response on
PurgeSyncResponse ==
    /\ IsSome(pendingSync)
    /\ \E response \in SyncResponses(Unwrap(pendingSync).pubkey) :
       \E res \in {ApplySyncResponse(orderbook, Unwrap(pendingSync).pubkey, response,
                                     nowSec)} :
        /\ PurgeStep
        /\ orderbook' = res.ob
        /\ bookPanic' = res.panic
        /\ pendingSync' = None
        /\ UNCHANGED nowSec

\* lp_ordermatch_loop, the block that drops timed out pubkeys
PurgeTimedOut ==
    /\ PurgeStep
    /\ orderbook' = purge_timed_out_pubkeys(orderbook, my_pubsecp, nowSec)
    /\ UNCHANGED <<nowSec, pendingSync, bookPanic>>

\* Time passes, in units of the keep-alive interval.
PurgeTick ==
    /\ PurgeStep
    /\ \E k \in 1..MaxBookTicks :
          /\ nowSec + k * MIN_ORDER_KEEP_ALIVE_INTERVAL
                <= MaxBookTicks * MIN_ORDER_KEEP_ALIVE_INTERVAL
          /\ nowSec' = nowSec + k * MIN_ORDER_KEEP_ALIVE_INTERVAL
    /\ UNCHANGED <<orderbook, pendingSync, bookPanic>>

PurgeNext ==
    \/ PurgeMakerOrderCreated
    \/ PurgeSubscribe
    \/ PurgeKeepAlive
    \/ PurgeSyncResponse
    \/ PurgeTimedOut
    \/ PurgeTick

SpecPurge == BookInit /\ [][PurgeNext]_vars

\* The pubkeys the purge of lp_ordermatch_loop must drop at time `now`.
TimedOutPubkeys(ob, now) ==
    {pk \in DOMAIN ob.pubkeys_state \ {my_pubsecp} :
        ob.pubkeys_state[pk].last_keep_alive + MAKER_ORDER_TIMEOUT <= now}

(***************************************************************************)
(* C12: the purge step of lp_ordermatch_loop leaves no state of a timed    *)
(* out pubkey other than the local one, and no order carrying such a       *)
(* pubkey in order_set (and so none the indexes could resolve to it); it   *)
(* keeps the local pubkey's state and orders.                              *)
(***************************************************************************)
C12_PurgeDropsTimedOutPubkeys ==
    [][PurgeTimedOut =>
          /\ \A pk \in TimedOutPubkeys(orderbook, nowSec) :
                /\ pk \notin DOMAIN orderbook'.pubkeys_state
                /\ \A uuid \in DOMAIN orderbook'.order_set :
                      orderbook'.order_set[uuid].pubkey # pk
          /\ my_pubsecp \in DOMAIN orderbook.pubkeys_state =>
                /\ my_pubsecp \in DOMAIN orderbook'.pubkeys_state
                /\ orderbook'.pubkeys_state[my_pubsecp] = orderbook.pubkeys_state[my_pubsecp]
          /\ \A uuid \in DOMAIN orderbook.order_set :
                orderbook.order_set[uuid].pubkey = my_pubsecp =>
                    /\ uuid \in DOMAIN orderbook'.order_set
                    /\ orderbook'.order_set[uuid] = orderbook.order_set[uuid]
      ]_vars

\* The uuid is in none of order_set, ordered, unordered and the trie of (pubkey, pair).
UuidAbsent(ob, uuid, pubkey, pair) ==
    /\ uuid \notin DOMAIN ob.order_set
    /\ \A base_rel \in DOMAIN ob.ordered : \A e \in ob.ordered[base_rel] : e[2] # uuid
    /\ \A base_rel \in DOMAIN ob.unordered : uuid \notin ob.unordered[base_rel]
    /\ uuid \notin DOMAIN CachedRoot(ob, pubkey, pair).kv

(***************************************************************************)
(* C13: when a MakerOrderUpdated turns an order into one with max_volume   *)
(* <= 0, price <= 0 or min_volume < 0, insert_or_update_order_update_trie  *)
(* removes it: the uuid is then absent from order_set, from every set of   *)
(* ordered and unordered and from the owner's trie of the order's pair.    *)
(***************************************************************************)
C13_NonPositiveOrderIsRemoved ==
    [][\A from_pubkey \in BookPubkeys : \A updated_msg \in BookUpdates :
          LET found == find_order_by_uuid_and_pubkey(orderbook, updated_msg.uuid, from_pubkey)
          IN  (/\ bookSteps' = bookSteps + 1
               /\ IsSome(found)
               /\ IsRemoval(apply_updated(Unwrap(found), updated_msg))
               /\ orderbook' = insert_or_update_order_update_trie(
                                   orderbook, apply_updated(Unwrap(found), updated_msg), nowSec))
              => UuidAbsent(orderbook', updated_msg.uuid, from_pubkey,
                            alb_ordered_pair(Unwrap(found).base, Unwrap(found).rel))
      ]_vars

(***************************************************************************)
(* SpecPersist: the maker side of the node with the RPCs that cancel       *)
(* orders, the balance handler and a restart.                              *)
(***************************************************************************)
PersistTickers == {"A", "B"}

CancelBys ==
    {[type |-> "All"], [type |-> "Pair", base |-> "A", rel |-> "B"],
     [type |-> "Coin", ticker |-> "B"]}

\* cancel_orders_by: the test of each arm, for a maker order and for a taker order
cancel_by_selects(cancel_by, base, rel) ==
    CASE cancel_by.type = "All" -> TRUE
      [] cancel_by.type = "Pair" -> base = cancel_by.base /\ rel = cancel_by.rel
      [] cancel_by.type = "Coin" -> base = cancel_by.ticker \/ rel = cancel_by.ticker

\* MakerOrder::is_cancellable and TakerOrder::is_cancellable
maker_is_cancellable(order) == ~has_ongoing_matches(order)

taker_is_cancellable(order) == order.matches = <<>>

\* cancel_order
CancelOrder ==
    \E uuid \in MatchMakerUuids \cup MatchTakerUuids :
        /\ MatchStep
        /\ matchLog' = NoLog
        /\ IF uuid \in DOMAIN my_maker_orders
           THEN IF maker_is_cancellable(my_maker_orders[uuid])
                THEN /\ my_maker_orders' = MapDel(my_maker_orders, {uuid})
                     /\ orderbook' = CancelOrders(orderbook, {uuid})
                     /\ broadcast' = Bcast(broadcast,
                                           MakerOrderCancelledMsg(my_maker_orders[uuid]))
                     /\ UNCHANGED <<my_taker_orders, orderFiles>>
                ELSE UNCHANGED <<my_maker_orders, my_taker_orders, orderFiles, orderbook,
                                 broadcast>>
           ELSE IF uuid \in DOMAIN my_taker_orders /\ taker_is_cancellable(my_taker_orders[uuid])
                THEN /\ my_taker_orders' = MapDel(my_taker_orders, {uuid})
                     /\ orderFiles' = [orderFiles EXCEPT !.taker = MapDel(@, {uuid})]
                     /\ UNCHANGED <<my_maker_orders, orderbook, broadcast>>
                ELSE UNCHANGED <<my_maker_orders, my_taker_orders, orderFiles, orderbook,
                                 broadcast>>
        /\ UNCHANGED <<swaps, usedUuids, loopPc, nowSec>>

\* cancel_all_orders, through cancel_orders_by
CancelAllOrders ==
    \E cancel_by \in CancelBys :
    \E makers \in {{u \in DOMAIN my_maker_orders :
                       /\ cancel_by_selects(cancel_by, my_maker_orders[u].base,
                                            my_maker_orders[u].rel)
                       /\ maker_is_cancellable(my_maker_orders[u])}} :
    \E takers \in {{u \in DOMAIN my_taker_orders :
                       /\ cancel_by_selects(cancel_by, my_taker_orders[u].request.base,
                                            my_taker_orders[u].request.rel)
                       /\ taker_is_cancellable(my_taker_orders[u])}} :
        /\ MatchStep
        /\ matchLog' = NoLog
        /\ my_maker_orders' = MapDel(my_maker_orders, makers)
        /\ my_taker_orders' = MapDel(my_taker_orders, takers)
        /\ orderFiles' = [maker |-> MapDel(orderFiles.maker, makers),
                          taker |-> MapDel(orderFiles.taker, takers)]
        /\ orderbook' = CancelOrders(orderbook, makers)
        /\ broadcast' = BcastAll(broadcast,
                                 {MakerOrderCancelledMsg(my_maker_orders[u]) : u \in makers})
        /\ UNCHANGED <<swaps, usedUuids, loopPc, nowSec>>

\* maker_order_updated_p2p_notify for each order of the set, with `new_volume`
RECURSIVE UpdateOrders(_, _, _)
UpdateOrders(ob, uuids, new_volume) ==
    IF uuids = {} THEN ob
    ELSE LET u == CHOOSE x \in uuids : TRUE
         IN  UpdateOrders(maker_order_updated_p2p_notify(
                              ob, MakerOrderUpdated(u, None, Some(new_volume), None)),
                          uuids \ {u}, new_volume)

\* BalanceUpdateOrdermatchHandler::balance_updated, the spawned notifications included
BalanceUpdated ==
    \E ticker \in PersistTickers : \E new_volume \in {MmInt(0), MmInt(5)} :
    \E cancelled \in {{u \in DOMAIN my_maker_orders :
                          /\ my_maker_orders[u].base = ticker
                          /\ MmLt(new_volume, my_maker_orders[u].min_base_vol)}} :
    \E updated \in {{u \in DOMAIN my_maker_orders \ cancelled :
                        /\ my_maker_orders[u].base = ticker
                        /\ MmLt(new_volume, available_amount(my_maker_orders[u]))}} :
        /\ MatchStep
        /\ matchLog' = NoLog
        /\ my_maker_orders' = MapDel(my_maker_orders, cancelled)
        /\ orderFiles' = [orderFiles EXCEPT !.maker = MapDel(@, cancelled)]
        /\ orderbook' = UpdateOrders(CancelOrders(orderbook, cancelled), updated, new_volume)
        /\ broadcast' =
              BcastAll(BcastAll(broadcast,
                                {MakerOrderCancelledMsg(my_maker_orders[u]) : u \in cancelled}),
                       {[type |-> "MakerOrderUpdated",
                         message |-> MakerOrderUpdated(u, None, Some(new_volume), None)] :
                           u \in updated})
        /\ UNCHANGED <<my_taker_orders, swaps, usedUuids, loopPc, nowSec>>

\* The node stops and starts again: orders_kick_start loads the order files.
OrdersKickStart ==
    /\ MatchStep
    /\ matchLog' = NoLog
    /\ my_maker_orders' = orderFiles.maker
    /\ my_taker_orders' = orderFiles.taker
    /\ orderbook' = EmptyOrderbook
    /\ loopPc' = 1
    /\ UNCHANGED <<orderFiles, broadcast, swaps, usedUuids, nowSec>>

PersistNext ==
    \/ SetPrice
    \/ LpAutoBuy
    \/ ProcessTakerRequest
    \/ ProcessTakerConnect
    \/ LoopMatches
    \/ LoopPurge
    \/ LoopAnnounce
    \/ MatchTick
    \/ CancelOrder
    \/ CancelAllOrders
    \/ BalanceUpdated
    \/ OrdersKickStart

SpecPersist == Init /\ [][PersistNext]_vars

(***************************************************************************)
(* C14: after every completed operation the uuids of the maker order files *)
(* are the keys of my_maker_orders.                                        *)
(***************************************************************************)
C14_MakerFilesMatchMemory ==
    DOMAIN orderFiles.maker = DOMAIN my_maker_orders

\* The taker order is past TAKER_ORDER_TIMEOUT at the time of the loop iteration.
taker_order_timed_out(order) == order.created_at + TAKER_ORDER_TIMEOUT * 1000 < now_ms

(***************************************************************************)
(* C15: no uuid is in my_taker_orders and my_maker_orders at once; the     *)
(* first block of lp_ordermatch_loop drops every timed out taker order     *)
(* with its file, and turns it into a maker order, with its file, exactly  *)
(* when it has no matches and is GoodTillCancelled: a Sell order keeps     *)
(* base/rel with price rel_amount/base_amount and max_base_vol             *)
(* base_amount, a Buy order swaps base/rel with price                      *)
(* base_amount/rel_amount, max_base_vol rel_amount and reversed            *)
(* confirmation settings.                                                  *)
(***************************************************************************)
C15_TimedOutTakerBecomesMaker ==
    /\ [](DOMAIN my_taker_orders \cap DOMAIN my_maker_orders = {})
    /\ [][(loopPc = 1 /\ loopPc' = 2) =>
           \A u \in DOMAIN my_taker_orders :
               LET order == my_taker_orders[u]
                   req == order.request
               IN  IF ~taker_order_timed_out(order)
                   THEN /\ u \in DOMAIN my_taker_orders'
                        /\ u \notin DOMAIN my_maker_orders'
                        /\ u \in DOMAIN orderFiles'.taker
                   ELSE /\ u \notin DOMAIN my_taker_orders'
                        /\ u \notin DOMAIN orderFiles'.taker
                        /\ IF order.matches = <<>> /\ order.order_type = "GoodTillCancelled"
                           THEN /\ u \in DOMAIN my_maker_orders'
                                /\ u \in DOMAIN orderFiles'.maker
                                /\ orderFiles'.maker[u] = my_maker_orders'[u]
                                /\ my_maker_orders'[u].uuid = u
                                /\ my_maker_orders'[u].matches = <<>>
                                /\ my_maker_orders'[u].min_base_vol = MmInt(0)
                                /\ IF req.action = "Buy"
                                   THEN /\ my_maker_orders'[u].base = req.rel
                                        /\ my_maker_orders'[u].rel = req.base
                                        /\ my_maker_orders'[u].price
                                               = Rat(req.base_amount.n * req.rel_amount.d,
                                                     req.base_amount.d * req.rel_amount.n)
                                        /\ my_maker_orders'[u].max_base_vol = req.rel_amount
                                        /\ my_maker_orders'[u].conf_settings
                                               = Some(reversed(Unwrap(req.conf_settings)))
                                   ELSE /\ my_maker_orders'[u].base = req.base
                                        /\ my_maker_orders'[u].rel = req.rel
                                        /\ my_maker_orders'[u].price
                                               = Rat(req.rel_amount.n * req.base_amount.d,
                                                     req.rel_amount.d * req.base_amount.n)
                                        /\ my_maker_orders'[u].max_base_vol = req.base_amount
                                        /\ my_maker_orders'[u].conf_settings = req.conf_settings
                           ELSE /\ u \notin DOMAIN my_maker_orders'
                                /\ u \notin DOMAIN orderFiles'.maker
         ]_vars

\* A Buy order for 5 A at price 2 was converted: a maker order selling 10 B at 1/2.
C15_Witness ==
    \E u \in MatchTakerUuids :
        /\ loopPc = 2
        /\ u \notin DOMAIN my_taker_orders
        /\ u \in DOMAIN my_maker_orders
        /\ my_maker_orders[u].base = "B"
        /\ my_maker_orders[u].price = Rat(1, 2)
        /\ my_maker_orders[u].max_base_vol = MmInt(10)

(***************************************************************************)
(* coins/tezos.rs: building, forging, signing, pre-applying and injecting  *)
(* operations under COUNTER_LOCK.  Every await of the source is one step,  *)
(* every RPC may fail, and the ledger bakes blocks in between.             *)
(***************************************************************************)
MaxBuilt == 2

MaxLevel == 2

TezFns == {"sign_and_send_operation", "withdraw"}

OpStatuses == {"applied", "failed", "none"}

Reveal(counter) == [kind |-> "reveal", counter |-> counter, parameters |-> None]

Tx(counter, parameters) ==
    [kind |-> "transaction", counter |-> counter, parameters |-> parameters]

BuildOperations_reveal_shares_counter(counter, manager_key, parameters) ==
    IF manager_key = None
    THEN <<Reveal(counter), Tx(counter, parameters)>>
    ELSE <<Tx(counter, parameters)>>

\* counter is the account counter read from the RPC plus one
BuildOperations(counter, manager_key, parameters) ==
    IF manager_key = None
    THEN <<Reveal(counter), Tx(counter + 1, parameters)>>
    ELSE <<Tx(counter, parameters)>>

TezosOperation(branch, contents) == [branch |-> branch, contents |-> contents]

TezCall(fn, parameters) ==
    [pc |-> "counter", fn |-> fn, parameters |-> parameters, counter_read |-> None,
     counter |-> 0, head |-> None, manager_key |-> None, operations |-> <<>>,
     forged |-> None, preapplied |-> None, injected |-> None]

head_level(ch) == Len(ch.blocks)

TezFrame ==
    UNCHANGED <<fnVars, orderbook, pendingSync, bookLog, bookPanic, bookSteps, matchVars>>

\* a `try_s!` that failed, or the final Ok: the call returns and drops _counter_lock
Returned(result, failed_at) ==
    [pc |-> "returned", result |-> result, failed_at |-> failed_at]

CallReturns(c, result, failed_at) ==
    /\ calls' = [calls EXCEPT ![c] = Returned(result, failed_at)]
    /\ counter_lock' = None

CallMoves(c, call) ==
    /\ calls' = [calls EXCEPT ![c] = call]
    /\ UNCHANGED counter_lock

\* the entry `built` gets when the signed operation leaves the call: injected by
\* sign_and_send_operation, returned as tx_hex by withdraw
BuiltBy(c) ==
    [by |-> c, fn |-> calls[c].fn, branch |-> Unwrap(calls[c].head),
     contents |-> calls[c].operations]

AcquireCounterLock(c, fn, parameters) ==
    /\ calls[c].pc \in {"idle", "returned"}
    /\ counter_lock = None
    /\ Len(built) < MaxBuilt
    /\ counter_lock' = Some(c)
    /\ calls' = [calls EXCEPT ![c] = TezCall(fn, parameters)]
    /\ UNCHANGED <<chain, built, waits, nowSec>>
    /\ TezFrame

SignAndSendOperation ==
    \E c \in TezCallers : AcquireCounterLock(c, "sign_and_send_operation", None)

Withdraw == \E c \in TezCallers : AcquireCounterLock(c, "withdraw", None)

RpcCounter ==
    \E c \in TezCallers, ok \in BOOLEAN :
        /\ calls[c].pc = "counter"
        /\ IF ok
           THEN CallMoves(c, [calls[c] EXCEPT !.pc = "block_header",
                                               !.counter_read = Some(chain.counter),
                                               !.counter = chain.counter + 1])
           ELSE CallReturns(c, "Err", Some("counter"))
        /\ UNCHANGED <<chain, built, waits, nowSec>>
        /\ TezFrame

RpcBlockHeader ==
    \E c \in TezCallers, ok \in BOOLEAN :
        /\ calls[c].pc = "block_header"
        /\ IF ok
           THEN CallMoves(c, [calls[c] EXCEPT !.pc = "manager_key",
                                               !.head = Some(head_level(chain))])
           ELSE CallReturns(c, "Err", Some("block_header"))
        /\ UNCHANGED <<chain, built, waits, nowSec>>
        /\ TezFrame

\* the manager_key fetch and the synchronous code up to the forge request
RpcManagerKey ==
    \E c \in TezCallers, ok \in BOOLEAN :
        /\ calls[c].pc = "manager_key"
        /\ IF ok
           THEN \E operations \in {BuildOperations(calls[c].counter, chain.manager_key,
                                                   calls[c].parameters)} :
                    CallMoves(c, [calls[c] EXCEPT
                        !.pc = "forge",
                        !.manager_key = Some(chain.manager_key),
                        !.operations = operations,
                        !.counter = operations[Len(operations)].counter])
           ELSE CallReturns(c, "Err", Some("manager_key"))
        /\ UNCHANGED <<chain, built, waits, nowSec>>
        /\ TezFrame

RpcForgeOperations ==
    \E c \in TezCallers, ok \in BOOLEAN :
        /\ calls[c].pc = "forge"
        /\ IF ok
           THEN CallMoves(c, [calls[c] EXCEPT !.pc = "sign",
                                               !.forged = Some(calls[c].operations)])
           ELSE CallReturns(c, "Err", Some("forge"))
        /\ UNCHANGED <<chain, built, waits, nowSec>>
        /\ TezFrame

\* sign_message and the pre-apply request; withdraw returns the signed bytes here
SignAndPreapply ==
    \E c \in TezCallers, signed \in BOOLEAN, ok \in BOOLEAN :
        /\ calls[c].pc = "sign"
        /\ IF ~signed
           THEN /\ CallReturns(c, "Err", Some("sign"))
                /\ UNCHANGED built
           ELSE IF ~ok
           THEN /\ CallReturns(c, "Err", Some("preapply"))
                /\ UNCHANGED built
           ELSE IF calls[c].fn = "withdraw"
           THEN /\ CallReturns(c, "Ok", None)
                /\ built' = Append(built, BuiltBy(c))
           ELSE /\ CallMoves(c, [calls[c] EXCEPT
                                     !.pc = "inject",
                                     !.preapplied = Some(calls[c].operations)])
                /\ UNCHANGED built
        /\ UNCHANGED <<chain, waits, nowSec>>
        /\ TezFrame

RpcInjectOperation ==
    \E c \in TezCallers, ok \in BOOLEAN :
        /\ calls[c].pc = "inject"
        /\ IF ok
           THEN /\ CallMoves(c, [calls[c] EXCEPT !.pc = "wait_counter",
                                                  !.injected = Some(calls[c].operations)])
                /\ chain' = [chain EXCEPT !.mempool =
                                @ \cup {TezosOperation(Unwrap(calls[c].head),
                                                       calls[c].operations)}]
                /\ built' = Append(built, BuiltBy(c))
           ELSE /\ CallReturns(c, "Err", Some("inject"))
                /\ UNCHANGED <<chain, built>>
        /\ UNCHANGED <<waits, nowSec>>
        /\ TezFrame

\* one round of the loop after the injection; Timer::sleep(1.) when the counters differ
RpcCounterAfterInject ==
    \E c \in TezCallers, ok \in BOOLEAN :
        /\ calls[c].pc = "wait_counter"
        /\ IF ~ok
           THEN CallReturns(c, "Err", Some("wait_counter"))
           ELSE IF chain.counter # calls[c].counter
           THEN UNCHANGED <<calls, counter_lock>>
           ELSE IF calls[c].fn = "check_and_update_allowance"
           THEN /\ calls' = [calls EXCEPT ![c].pc = "wait_for_operation_confirmation"]
                /\ counter_lock' = None
           ELSE CallReturns(c, "Ok", None)
        /\ UNCHANGED <<chain, built, waits, nowSec>>
        /\ TezFrame

\* the bytes a withdraw returned are handed to send_raw_tx by the caller
SendRawTx ==
    \E i \in DOMAIN built :
        /\ built[i].fn = "withdraw"
        /\ chain' = [chain EXCEPT !.mempool =
                        @ \cup {TezosOperation(built[i].branch, built[i].contents)}]
        /\ UNCHANGED <<counter_lock, calls, built, waits, nowSec>>
        /\ TezFrame

\* the token contract sets the allowance of the spender to the approved value
ApplyApprove(account, contents, results) ==
    LET tx == contents[Len(contents)] IN
    IF /\ tx.parameters # None
       /\ Unwrap(tx.parameters).entrypoint = "approve"
       /\ results[Len(contents)] = "applied"
    THEN [account EXCEPT !.allowance = Unwrap(tx.parameters).value]
    ELSE account

HasReveal(contents) == \E i \in 1..Len(contents) : contents[i].kind = "reveal"

\* the ledger accepts an operation whose first counter follows the account counter
CounterFollows(ch, op) == op.contents[1].counter = ch.counter + 1

\* the operation_result statuses the contents of an included operation may get
OpResults(contents) == [1..Len(contents) -> OpStatuses]

\* the ledger bakes a block: empty, or holding one operation of the mempool; an
\* operation with a stale or future counter is refused and leaves the mempool
BakeBlock ==
    /\ head_level(chain) < MaxLevel
    /\ \/ chain' = [chain EXCEPT !.blocks = Append(@, <<>>)]
       \/ \E op \in chain.mempool :
            IF CounterFollows(chain, op)
            THEN \E results \in OpResults(op.contents) : chain' = [chain EXCEPT
                    !.blocks = Append(@, <<[op |-> op, results |-> results]>>),
                    !.mempool = @ \ {op},
                    !.counter = op.contents[Len(op.contents)].counter,
                    !.manager_key = IF HasReveal(op.contents) THEN Some("edpk") ELSE @,
                    !.erc_account = ApplyApprove(@, op.contents, results)]
            ELSE chain' = [chain EXCEPT !.blocks = Append(@, <<>>),
                                        !.mempool = @ \ {op}]
    /\ UNCHANGED <<counter_lock, calls, built, waits, nowSec>>
    /\ TezFrame

TezInit ==
    /\ FnIdle
    /\ BookIdle
    /\ MatchIdle
    /\ chain \in {Chain(0, k, <<>>, {}, ErcAccount(0, 0), "Initialized") :
                    k \in {None, Some("edpk")}}
    /\ counter_lock = None
    /\ calls = [c \in TezCallers |-> NoCall]
    /\ built = <<>>
    /\ waits = NoCall

TezNext ==
    \/ SignAndSendOperation
    \/ Withdraw
    \/ RpcCounter
    \/ RpcBlockHeader
    \/ RpcManagerKey
    \/ RpcForgeOperations
    \/ SignAndPreapply
    \/ RpcInjectOperation
    \/ RpcCounterAfterInject
    \/ SendRawTx
    \/ BakeBlock

SpecTezos == TezInit /\ [][TezNext]_vars

BuiltCounters(i) == {built[i].contents[k].counter : k \in 1..Len(built[i].contents)}

\* C16: no two operations built for the account carry the same counter, and every
\* operation's counter is greater than that of every operation built before it,
\* whatever the interleaving of sign_and_send_operation and withdraw calls.
C16_CountersStrictlyIncrease ==
    \A i \in DOMAIN built, j \in DOMAIN built :
        i < j => \A a \in BuiltCounters(i), b \in BuiltCounters(j) : a < b

Running(c) == calls[c].pc \notin {"idle", "returned"}

SignAndSendRuns(c) == Running(c) /\ calls[c].fn = "sign_and_send_operation"

FailuresBeforeInject ==
    {Some(f) : f \in {"counter", "block_header", "manager_key", "forge", "sign", "preapply"}}

\* the contents the claim states for account counter c and the manager key read
StatedContents(c, manager_key, parameters) ==
    IF manager_key = None
    THEN <<Reveal(c + 1), Tx(c + 2, parameters)>>
    ELSE <<Tx(c + 1, parameters)>>

\* C17: sign_and_send_operation injects only contents that were forged and pre-applied;
\* a failure of the counter, header or manager-key fetch, of forging, signing or
\* pre-apply returns an error with nothing injected; the contents are a reveal with
\* counter c+1 and the transaction with c+2 exactly when no manager key was read, else
\* the transaction alone with c+1.
C17_LifecycleOrder ==
    /\ [](\A c \in TezCallers :
            SignAndSendRuns(c) /\ calls[c].pc \in {"forge", "sign", "inject", "wait_counter"}
                => calls[c].operations =
                       StatedContents(Unwrap(calls[c].counter_read),
                                      Unwrap(calls[c].manager_key), calls[c].parameters))
    /\ [][\A c \in TezCallers :
            SignAndSendRuns(c) /\ calls'[c] # calls[c] =>
                /\ chain'.mempool # chain.mempool \/ built' # built =>
                    /\ calls[c].forged = Some(calls[c].operations)
                    /\ calls[c].preapplied = Some(calls[c].operations)
                    /\ chain'.mempool = chain.mempool
                           \cup {TezosOperation(Unwrap(calls[c].head), calls[c].operations)}
                /\ calls'[c].pc = "returned" /\ calls'[c].failed_at \in FailuresBeforeInject =>
                    /\ calls'[c].result = "Err"
                    /\ calls[c].injected = None
                    /\ chain' = chain
                    /\ built' = built]_vars

C17_Witness ==
    \E c \in TezCallers :
        /\ SignAndSendRuns(c)
        /\ calls[c].pc = "wait_counter"
        /\ calls[c].operations = <<Reveal(1), Tx(2, None)>>
        /\ TezosOperation(Unwrap(calls[c].head), calls[c].operations) \in chain.mempool

(***************************************************************************)
(* wait_for_operation_confirmation: one step per await of the source.      *)
(***************************************************************************)
MaxTezNow == 6

WaitConfirmations == {1, 2}

WaitUntils == {2, 4}

CheckEvery == {1, 2}

WaitedOps == {TezosOperation(0, BuildOperations(1, k, None)) : k \in {None, Some("edpk")}}

Sleep(now, secs) == IF now + secs > MaxTezNow THEN MaxTezNow ELSE now + secs

deadline_never_passed(now, wait_until) == FALSE

deadline_passed(now, wait_until) == now > wait_until

enough_confirmations_off_by_one(head, block_number, confirmations) ==
    head - block_number + 2 >= confirmations

\* current_confirmations >= confirmations
enough_confirmations(head, block_number, confirmations) ==
    head - block_number + 1 >= confirmations

\* operation_hashes of a block: genesis and empty blocks hold none
operation_hashes(ch, level) ==
    IF level \in DOMAIN ch.blocks
    THEN {ch.blocks[level][i].op : i \in DOMAIN ch.blocks[level]}
    ELSE {}

\* single_operation: the operation with its results at the place it was found
single_operation(ch, level, op) ==
    CHOOSE included \in {ch.blocks[level][i] : i \in DOMAIN ch.blocks[level]} :
        included.op = op

all_applied(included) ==
    \A i \in DOMAIN included.results : included.results[i] = "applied"

WaitCall(op, confirmations, wait_until, check_every) ==
    [pc |-> "since_block_header", fn |-> "wait_for_operation_confirmation", op |-> op,
     confirmations |-> confirmations, wait_until |-> wait_until,
     check_every |-> check_every, since_level |-> 0, current_head |-> 0, cur_block |-> 0,
     found_tx_in_block |-> None]

WaitReturns(result, failed_at) == waits' = Returned(result, failed_at)

WaitFrame == UNCHANGED <<counter_lock, calls, built>> /\ TezFrame

WaitForOperationConfirmation ==
    \E op \in WaitedOps, confirmations \in WaitConfirmations, wait_until \in WaitUntils,
       check_every \in CheckEvery :
        /\ waits.pc = "idle"
        /\ waits' = WaitCall(op, confirmations, wait_until, check_every)
        /\ UNCHANGED <<chain, nowSec>>
        /\ WaitFrame

\* block_header(since_branch)
WaitSinceBlockHeader ==
    \E ok \in BOOLEAN :
        /\ waits.pc = "since_block_header"
        /\ IF ok
           THEN waits' = [waits EXCEPT !.pc = "loop", !.since_level = waits.op.branch]
           ELSE WaitReturns("Err", Some("rpc"))
        /\ UNCHANGED <<chain, nowSec>>
        /\ WaitFrame

\* the deadline test and block_header("head")
WaitLoop ==
    \E ok \in BOOLEAN :
        /\ waits.pc = "loop"
        /\ IF deadline_passed(nowSec, waits.wait_until)
           THEN WaitReturns("Err", Some("timeout"))
           ELSE IF ~ok
           THEN WaitReturns("Err", Some("rpc"))
           ELSE IF head_level(chain) > waits.since_level /\ waits.found_tx_in_block = None
           THEN waits' = [waits EXCEPT !.pc = "operation_hashes",
                                       !.current_head = head_level(chain),
                                       !.cur_block = waits.since_level]
           ELSE waits' = [waits EXCEPT !.pc = "single_operation",
                                       !.current_head = head_level(chain)]
        /\ UNCHANGED <<chain, nowSec>>
        /\ WaitFrame

\* one round of `while cur_block <= current_head.level`, Timer::sleep(1.) included
WaitOperationHashes ==
    \E ok \in BOOLEAN :
        /\ waits.pc = "operation_hashes"
        /\ IF ~ok
           THEN WaitReturns("Err", Some("rpc")) /\ UNCHANGED nowSec
           ELSE /\ waits' = [waits EXCEPT
                        !.found_tx_in_block =
                            IF waits.op \in operation_hashes(chain, waits.cur_block)
                            THEN Some(waits.cur_block) ELSE @,
                        !.cur_block = @ + 1,
                        !.pc = IF waits.cur_block + 1 <= waits.current_head
                               THEN "operation_hashes" ELSE "single_operation"]
                /\ nowSec' = Sleep(nowSec, 1)
        /\ UNCHANGED chain
        /\ WaitFrame

\* `if let Some(..) = found_tx_in_block` with single_operation, then
\* Timer::sleep(check_every)
WaitSingleOperation ==
    \E ok \in BOOLEAN :
        /\ waits.pc = "single_operation"
        /\ IF waits.found_tx_in_block = None
           THEN /\ waits' = [waits EXCEPT !.pc = "loop"]
                /\ nowSec' = Sleep(nowSec, waits.check_every)
           ELSE IF ~ok
           THEN WaitReturns("Err", Some("rpc")) /\ UNCHANGED nowSec
           ELSE \E block_number \in {Unwrap(waits.found_tx_in_block)} :
                IF ~all_applied(single_operation(chain, block_number, waits.op))
                THEN WaitReturns("Err", Some("status")) /\ UNCHANGED nowSec
                ELSE IF enough_confirmations(waits.current_head, block_number,
                                             waits.confirmations)
                THEN WaitReturns("Ok", None) /\ UNCHANGED nowSec
                ELSE /\ waits' = [waits EXCEPT !.pc = "loop"]
                     /\ nowSec' = Sleep(nowSec, waits.check_every)
        /\ UNCHANGED chain
        /\ WaitFrame

\* the operation the call waits for is injected by its sender
InjectWaited ==
    \E op \in WaitedOps :
        /\ chain.counter = 0
        /\ chain.mempool = {}
        /\ op.contents = BuildOperations(1, chain.manager_key, None)
        /\ chain' = [chain EXCEPT !.mempool = {op}]
        /\ UNCHANGED <<waits, nowSec>>
        /\ WaitFrame

TezTick ==
    /\ nowSec < MaxTezNow
    /\ nowSec' = nowSec + 1
    /\ UNCHANGED <<chain, waits>>
    /\ WaitFrame

(***************************************************************************)
(* wait_for_tx_spend with search_for_htlc_spend.                           *)
(***************************************************************************)
SpendSleepSecs == 10

SpendCall(wait_until) ==
    [pc |-> "search_for_htlc_spend", fn |-> "wait_for_tx_spend", wait_until |-> wait_until]

WaitForTxSpend ==
    \E wait_until \in WaitUntils :
        /\ waits.pc = "idle"
        /\ waits' = SpendCall(wait_until)
        /\ UNCHANGED <<chain, nowSec>>
        /\ WaitFrame

\* the Err and None arms of the loop: deadline test, else Timer::sleep(10.)
SpendNotFound ==
    IF deadline_passed(nowSec, waits.wait_until)
    THEN WaitReturns("Err", Some("timeout")) /\ UNCHANGED nowSec
    ELSE /\ waits' = [waits EXCEPT !.pc = "search_for_htlc_spend"]
         /\ nowSec' = Sleep(nowSec, SpendSleepSecs)

\* search_for_htlc_spend up to the swap state read by get_big_map
SearchForHtlcSpend ==
    \E ok \in BOOLEAN :
        /\ waits.pc = "search_for_htlc_spend"
        /\ IF ~ok \/ chain.swap_state = "Initialized"
           THEN SpendNotFound
           ELSE /\ waits' = [waits EXCEPT !.pc = "find_op_by_uuid_and_entry_path"]
                /\ UNCHANGED nowSec
        /\ UNCHANGED chain
        /\ WaitFrame

\* find_op_by_uuid_and_entry_path and the match on found_something
FindOpByUuidAndEntryPath ==
    \E ok \in BOOLEAN, found \in BOOLEAN :
        /\ waits.pc = "find_op_by_uuid_and_entry_path"
        /\ IF ~ok \/ ~found
           THEN SpendNotFound
           ELSE /\ IF chain.swap_state = "ReceiverSpent"
                   THEN WaitReturns("Ok", None)
                   ELSE WaitReturns("Err", Some("refunded"))
                /\ UNCHANGED nowSec
        /\ UNCHANGED chain
        /\ WaitFrame

\* the counterparty spends or refunds the HTLC
SwapStateChanges ==
    \E swap_state \in {"ReceiverSpent", "SenderRefunded"} :
        /\ chain.swap_state = "Initialized"
        /\ chain' = [chain EXCEPT !.swap_state = swap_state]
        /\ UNCHANGED <<waits, nowSec>>
        /\ WaitFrame

WaitCallSteps ==
    \/ WaitSinceBlockHeader
    \/ WaitLoop
    \/ WaitOperationHashes
    \/ WaitSingleOperation
    \/ SearchForHtlcSpend
    \/ FindOpByUuidAndEntryPath

WaitNext ==
    \/ WaitForOperationConfirmation
    \/ WaitForTxSpend
    \/ WaitSinceBlockHeader
    \/ WaitLoop
    \/ WaitOperationHashes
    \/ WaitSingleOperation
    \/ SearchForHtlcSpend
    \/ FindOpByUuidAndEntryPath
    \/ SwapStateChanges
    \/ InjectWaited
    \/ BakeBlock
    \/ TezTick

SpecWait == TezInit /\ [][WaitNext]_vars

\* the executor runs a call that is not finished and every RPC answers: weak fairness
\* of the calls' steps; Timer::sleep is what moves the clock
SpecWaitLive == SpecWait /\ WF_vars(WaitCallSteps)

WaitRuns == waits.pc \notin {"idle", "returned"}

WaitReturned(result) == WaitRuns /\ waits'.pc = "returned" /\ waits'.result = result

ConfirmationRuns == WaitRuns /\ waits.fn = "wait_for_operation_confirmation"

\* the blocks of the ledger that hold op
BlocksOf(ch, op) == {b \in DOMAIN ch.blocks : op \in operation_hashes(ch, b)}

\* C18: wait_for_operation_confirmation returns Ok only if the operation is in a block
\* b, every content has a result with status applied and head.level - b + 1 >=
\* confirmations; when the operation was found and a content is not applied or has no
\* result, the step that reads the operation returns an error whatever the confirmations.
C18_OkOnlyWhenAppliedAndConfirmed ==
    /\ [][ConfirmationRuns /\ WaitReturned("Ok") =>
            \E b \in BlocksOf(chain, waits.op) :
                /\ all_applied(single_operation(chain, b, waits.op))
                /\ head_level(chain) - b + 1 >= waits.confirmations]_vars
    /\ [][/\ waits.pc = "single_operation"
          /\ waits.found_tx_in_block # None
          /\ ~all_applied(single_operation(chain, Unwrap(waits.found_tx_in_block), waits.op))
          /\ waits' # waits
          => waits'.pc = "returned" /\ waits'.result = "Err"]_vars

C18_Witness ==
    /\ ConfirmationRuns
    /\ waits.pc = "single_operation"
    /\ waits.confirmations = 2
    /\ waits.found_tx_in_block = Some(1)
    /\ waits.current_head = 2
    /\ Len(waits.op.contents) = 2
    /\ all_applied(single_operation(chain, 1, waits.op))

\* C19: neither polling loop runs forever: a wait_for_operation_confirmation or
\* wait_for_tx_spend call that is running eventually returns, with the timeout error
\* only when the clock has passed wait_until, given that its steps are taken.
C19_WaitsTerminate ==
    /\ WaitRuns ~> waits.pc = "returned"
    /\ [][WaitRuns /\ waits'.pc = "returned" /\ waits'.failed_at = Some("timeout")
            => nowSec > waits.wait_until]_vars

C19_Witness == waits = Returned("Err", Some("timeout")) /\ chain.swap_state = "Initialized"

(***************************************************************************)
(* check_and_update_allowance: my_erc_account, then sign_and_send_operation *)
(* with the approve call and wait_for_operation_confirmation.              *)
(***************************************************************************)
AllowanceBalances == {1, 3}

AllowanceAllowances == {0, 2}

AllowanceAmounts == {1, 3}

erc_approve_call(amount) == [entrypoint |-> "approve", value |-> amount]

AllowanceCall(amount) ==
    [pc |-> "my_erc_account", fn |-> "check_and_update_allowance", amount |-> amount]

AllowanceFrame == UNCHANGED <<waits, nowSec>> /\ TezFrame

CheckAndUpdateAllowance ==
    \E c \in TezCallers, amount \in AllowanceAmounts :
        /\ calls[c].pc \in {"idle", "returned"}
        /\ Len(built) < MaxBuilt
        /\ calls' = [calls EXCEPT ![c] = AllowanceCall(amount)]
        /\ UNCHANGED <<chain, counter_lock, built>>
        /\ AllowanceFrame

\* my_erc_account and the comparison of the spender's allowance with the amount
RpcMyErcAccount ==
    \E c \in TezCallers, ok \in BOOLEAN :
        /\ calls[c].pc = "my_erc_account"
        /\ calls' = [calls EXCEPT ![c] =
                IF ~ok
                THEN Returned("Err", Some("my_erc_account"))
                ELSE IF chain.erc_account.allowance < calls[c].amount
                THEN [pc |-> "lock", fn |-> "check_and_update_allowance",
                      amount |-> calls[c].amount,
                      current_allowance |-> chain.erc_account.allowance,
                      args |-> erc_approve_call(chain.erc_account.balance)]
                ELSE Returned("Ok", None)]
        /\ UNCHANGED <<chain, counter_lock, built>>
        /\ AllowanceFrame

\* sign_and_send_operation(zero, token_addr, Some(args)) takes COUNTER_LOCK
ApproveAcquiresCounterLock ==
    \E c \in TezCallers :
        /\ calls[c].pc = "lock"
        /\ counter_lock = None
        /\ counter_lock' = Some(c)
        /\ calls' = [calls EXCEPT ![c] =
                TezCall("check_and_update_allowance", Some(calls[c].args))
                    @@ [amount |-> calls[c].amount,
                        current_allowance |-> calls[c].current_allowance]]
        /\ UNCHANGED <<chain, built>>
        /\ AllowanceFrame

\* wait_for_operation_confirmation(op_hash, 1, ..): Ok only for an applied operation
\* with one confirmation, an error otherwise
ApproveConfirmation ==
    \E c \in TezCallers, ok \in BOOLEAN :
        /\ calls[c].pc = "wait_for_operation_confirmation"
        /\ \E op \in {TezosOperation(Unwrap(calls[c].head), calls[c].operations)} :
            /\ ok => \E b \in BlocksOf(chain, op) :
                        /\ all_applied(single_operation(chain, b, op))
                        /\ enough_confirmations(head_level(chain), b, 1)
            /\ calls' = [calls EXCEPT ![c] =
                    IF ok THEN Returned("Ok", None)
                    ELSE Returned("Err", Some("wait_for_operation_confirmation"))]
        /\ UNCHANGED <<chain, counter_lock, built>>
        /\ AllowanceFrame

AllowanceInit ==
    /\ FnIdle
    /\ BookIdle
    /\ MatchIdle
    /\ chain \in {Chain(0, Some("edpk"), <<>>, {}, ErcAccount(balance, allowance),
                        "Initialized") :
                    balance \in AllowanceBalances, allowance \in AllowanceAllowances}
    /\ counter_lock = None
    /\ calls = [c \in TezCallers |-> NoCall]
    /\ built = <<>>
    /\ waits = NoCall

AllowanceNext ==
    \/ CheckAndUpdateAllowance
    \/ RpcMyErcAccount
    \/ ApproveAcquiresCounterLock
    \/ RpcCounter
    \/ RpcBlockHeader
    \/ RpcManagerKey
    \/ RpcForgeOperations
    \/ SignAndPreapply
    \/ RpcInjectOperation
    \/ RpcCounterAfterInject
    \/ ApproveConfirmation
    \/ BakeBlock

SpecAllowance == AllowanceInit /\ [][AllowanceNext]_vars

\* the approve operations of check_and_update_allowance calls that were injected
ApproveSent(c) ==
    /\ calls[c].pc \in {"wait_counter", "wait_for_operation_confirmation"}
    /\ calls[c].fn = "check_and_update_allowance"

\* C20: check_and_update_allowance sends an approve operation only when the current
\* allowance is lower than the required amount, the approved value is never lower
\* than the current allowance, and with a sufficient allowance nothing is sent.
C20_AllowanceOnlyRaised ==
    /\ [](\A c \in TezCallers : ApproveSent(c) =>
            /\ calls[c].current_allowance < calls[c].amount
            /\ Unwrap(calls[c].parameters).value >= calls[c].current_allowance)
    /\ [][\A c \in TezCallers :
            /\ calls[c].pc = "my_erc_account"
            /\ chain.erc_account.allowance >= calls[c].amount
            /\ calls'[c] # calls[c]
            => calls'[c].pc = "returned" /\ chain' = chain /\ built' = built]_vars

(***************************************************************************)
(* spend_htlc_payment: the receiver_spends call handed to                  *)
(* sign_and_send_operation.                                                *)
(***************************************************************************)
MaxSpendBuilt == 1

\* the hash of a secret under an algorithm, as an injective term
secret_hash_of(algo, secret) == [algo |-> algo, preimage |-> secret.bytes]

Secrets == {[bytes |-> "s1", len |-> 32], [bytes |-> "s2", len |-> 32],
            [bytes |-> "s1short", len |-> 31]}

\* the swap record the contract stores for the payment that is spent
SwapRecord ==
    [secret_hash |-> secret_hash_of("Sha256", [bytes |-> "s1", len |-> 32]),
     secret_hash_algo |-> "Sha256", secret_len |-> 32]

secret_matches(secret, swap) ==
    /\ secret.len = swap.secret_len
    /\ secret_hash_of(swap.secret_hash_algo, secret) = swap.secret_hash

receiver_spends_call(secret) == [entrypoint |-> "receiver_spends", secret |-> secret]

\* deserialize(tx), receiver_spends_call, first_tx_destination; the future is created
SpendHtlcPayment ==
    \E c \in TezCallers, secret \in Secrets, tx_ok \in BOOLEAN :
        /\ calls[c].pc \in {"idle", "returned"}
        /\ Len(built) < MaxSpendBuilt
        /\ calls' = [calls EXCEPT ![c] =
                IF tx_ok
                THEN [pc |-> "spend_lock", fn |-> "spend_htlc_payment",
                      args |-> receiver_spends_call(secret)]
                ELSE Returned("Err", Some("deserialize"))]
        /\ UNCHANGED <<chain, counter_lock, built>>
        /\ AllowanceFrame

\* coin.sign_and_send_operation(0, &dest, Some(args)) takes COUNTER_LOCK
SpendAcquiresCounterLock ==
    \E c \in TezCallers :
        /\ calls[c].pc = "spend_lock"
        /\ counter_lock = None
        /\ counter_lock' = Some(c)
        /\ calls' = [calls EXCEPT ![c] =
                TezCall("spend_htlc_payment", Some(calls[c].args))]
        /\ UNCHANGED <<chain, built>>
        /\ AllowanceFrame

SpendNext ==
    \/ SpendHtlcPayment
    \/ SpendAcquiresCounterLock
    \/ RpcCounter
    \/ RpcBlockHeader
    \/ RpcManagerKey
    \/ RpcForgeOperations
    \/ SignAndPreapply
    \/ RpcInjectOperation
    \/ RpcCounterAfterInject
    \/ BakeBlock

SpecSpend == TezInit /\ [][SpendNext]_vars

\* C21: spend_htlc_payment validates the secret first: with a secret whose length or
\* hash does not match the swap record, no operation is forged, signed or injected.
C21_SecretValidatedBeforeSpend ==
    \A c \in TezCallers :
        /\ Running(c)
        /\ calls[c].fn = "spend_htlc_payment"
        /\ calls[c].pc \in {"sign", "inject", "wait_counter"}
        => secret_matches(Unwrap(calls[c].parameters).secret, SwapRecord)

(***************************************************************************)
(* Binary codec of coins/tezos.rs.  Bytes are naturals below 256, a byte   *)
(* string is a sequence of them, and a reader is the suffix not yet read:  *)
(* a decoder returns DecOk(value, rest) or DecErr(error), or CodecPanic    *)
(* when the Rust code panics.                                              *)
(***************************************************************************)
DecOk(val, rest) == [res |-> "Ok", val |-> val, rest |-> rest]

DecErr(e) == [res |-> "Err", err |-> e]

CodecPanic == [res |-> "panic"]

BitSet(byte, k) == (byte \div (2 ^ k)) % 2 = 1

\* byte ^ (1u8 << k)
FlipBit(byte, k) == IF BitSet(byte, k) THEN byte - 2 ^ k ELSE byte + 2 ^ k

Repeat(byte, n) == [i \in 1..n |-> byte]

\* let r = value; Body(r), the value computed once
Bind(value, Body(_)) == CHOOSE out \in {Body(r) : r \in {value}} : TRUE

read_u8(bytes) ==
    IF bytes = <<>> THEN DecErr("UnexpectedEnd") ELSE DecOk(bytes[1], Tail(bytes))

read_slice(bytes, n) ==
    IF Len(bytes) < n THEN DecErr("UnexpectedEnd")
    ELSE DecOk(SubSeq(bytes, 1, n), SubSeq(bytes, n + 1, Len(bytes)))

\* u32::to_be_bytes of a length
to_be_bytes(n) ==
    <<(n \div 16777216) % 256, (n \div 65536) % 256, (n \div 256) % 256, n % 256>>

\* u32::from_be_bytes of the four bytes of an H32
from_be_bytes(b) == b[1] * 16777216 + b[2] * 65536 + b[3] * 256 + b[4]

RECURSIVE big_uint_to_zarith_bytes(_)
big_uint_to_zarith_bytes(num) ==
    LET remainder == num % 128
        rest == num \div 128
    IN  IF rest = 0 THEN <<remainder>>
        ELSE <<FlipBit(remainder, 7)>> \o big_uint_to_zarith_bytes(rest)

RECURSIVE BigIntToZarithLoop(_, _, _)
BigIntToZarithLoop(num, divisor, sign) ==
    LET rem0 == num % divisor
        rest == num \div divisor
        remainder == IF divisor = 64 /\ sign = 1 THEN FlipBit(rem0, 6) ELSE rem0
    IN  IF rest = 0 THEN <<remainder>>
        ELSE <<FlipBit(remainder, 7)>> \o BigIntToZarithLoop(rest, 128, sign)

big_int_to_zarith_bytes_sign_dropped(num) == BigIntToZarithLoop(Abs(num), 64, 0)

big_int_to_zarith_bytes(num) ==
    BigIntToZarithLoop(Abs(num), 64, IF num < 0 THEN 1 ELSE 0)

RECURSIVE TezosUintLoop(_, _, _)
TezosUintLoop(bytes, res, i) ==
    Bind(read_u8(bytes), LAMBDA r :
        IF r.res # "Ok" THEN r
        ELSE LET stop == ~BitSet(r.val, 7)
                 byte == IF stop THEN r.val ELSE FlipBit(r.val, 7)
             IN  Bind(res + byte * (128 ^ i), LAMBDA sum :
                     IF stop THEN DecOk(sum, r.rest)
                     ELSE TezosUintLoop(r.rest, sum, i + 1)))

TezosUintDeserialize(bytes) == TezosUintLoop(bytes, 0, 0)

\* format!("{:0width$b}", byte): the binary digits, zero-padded to width
RECURSIVE BinaryDigits(_)
BinaryDigits(n) == IF n = 0 THEN <<>> ELSE BinaryDigits(n \div 2) \o <<n % 2>>

FormatBinary(byte, width) ==
    LET digits == BinaryDigits(byte) IN
    IF Len(digits) >= width THEN digits ELSE Repeat(0, width - Len(digits)) \o digits

\* BigInt::from_str_radix(bits_str, 2)
RECURSIVE from_str_radix(_)
from_str_radix(bits) ==
    IF bits = <<>> THEN 0
    ELSE 2 * from_str_radix(SubSeq(bits, 1, Len(bits) - 1)) + bits[Len(bits)]

RECURSIVE TezosIntLoop(_, _, _, _)
TezosIntLoop(bytes, bits_str, sign, i) ==
    Bind(read_u8(bytes), LAMBDA r :
        IF r.res # "Ok" THEN r
        ELSE LET negative == i = 0 /\ BitSet(r.val, 6)
                 sign1 == IF negative THEN -sign ELSE sign
                 byte1 == IF negative THEN FlipBit(r.val, 6) ELSE r.val
                 stop == ~BitSet(byte1, 7)
                 byte == IF stop THEN byte1 ELSE FlipBit(byte1, 7)
             IN  Bind(FormatBinary(byte, IF i = 0 THEN 6 ELSE 7) \o bits_str, LAMBDA bits :
                     IF stop THEN DecOk(sign1 * from_str_radix(bits), r.rest)
                     ELSE TezosIntLoop(r.rest, bits, sign1, i + 1)))

TezosIntDeserialize(bytes) == TezosIntLoop(bytes, <<>>, 1, 0)

\* TezosValue: Int, Bytes, String (its UTF-8 bytes), List, and the prims.
TezInt(n) == [t |-> "Int", int |-> n]

TezBytes(b) == [t |-> "Bytes", bytes |-> b]

TezString(s) == [t |-> "String", string |-> s]

TezList(items) == [t |-> "List", items |-> items]

TezPrim(prim, args) == [t |-> prim, args |-> args]

\* the two tag bytes of each TezosPrim
PrimTags ==
    [Pair |-> <<7, 7>>, Left |-> <<5, 5>>, Right |-> <<5, 8>>, Unit |-> <<3, 11>>,
     Elt |-> <<7, 4>>, Some |-> <<5, 9>>, None |-> <<3, 6>>, True |-> <<3, 10>>,
     False |-> <<3, 3>>]

\* String::from_utf8 on the byte strings of this model: ASCII is accepted,
\* a byte of 0xF8 or above never occurs in UTF-8
from_utf8_ok(bytes) == \A i \in DOMAIN bytes : bytes[i] < 128

RECURSIVE TezosValueSerialize(_)
RECURSIVE SerializeItems(_)
TezosValueSerialize(v) ==
    CASE v.t = "String" -> <<1>> \o to_be_bytes(Len(v.string)) \o v.string
      [] v.t = "Int" -> <<0>> \o big_int_to_zarith_bytes(v.int)
      [] v.t = "Bytes" -> <<10>> \o to_be_bytes(Len(v.bytes)) \o v.bytes
      [] v.t = "List" ->
            LET bytes == SerializeItems(v.items)
            IN  <<2>> \o to_be_bytes(Len(bytes)) \o bytes
      [] OTHER -> PrimTags[v.t] \o SerializeItems(v.args)

SerializeItems(items) ==
    IF items = <<>> THEN <<>>
    ELSE TezosValueSerialize(Head(items)) \o SerializeItems(Tail(items))

RECURSIVE TezosValueDeserialize(_)
RECURSIVE DeserializeList(_, _)
RECURSIVE DeserializeArgs(_, _, _)
\* reader.read()? of n values in a row, wrapped in the prim
DeserializeArgs(bytes, n, args) ==
    IF n = 0 THEN DecOk(args, bytes)
    ELSE Bind(TezosValueDeserialize(bytes), LAMBDA r :
             IF r.res # "Ok" THEN r
             ELSE DeserializeArgs(r.rest, n - 1, Append(args, r.val)))

\* while !list_reader.is_finished() { res.push(list_reader.read()?) }
DeserializeList(bytes, items) ==
    IF bytes = <<>> THEN DecOk(items, <<>>)
    ELSE Bind(TezosValueDeserialize(bytes), LAMBDA r :
             IF r.res # "Ok" THEN r
             ELSE DeserializeList(r.rest, Append(items, r.val)))

ReadPrim(bytes, prim, n) ==
    Bind(DeserializeArgs(bytes, n, <<>>), LAMBDA r :
        IF r.res # "Ok" THEN r ELSE DecOk(TezPrim(prim, r.val), r.rest))

\* a u32 length, then that many bytes
ReadLengthPrefixed(bytes) ==
    Bind(read_slice(bytes, 4), LAMBDA l :
        IF l.res # "Ok" THEN l ELSE read_slice(l.rest, from_be_bytes(l.val)))

TezosValueDeserialize(bytes) ==
    Bind(read_u8(bytes), LAMBDA tag :
        IF tag.res # "Ok" THEN tag
        ELSE CASE tag.val = 0 ->
                    Bind(TezosIntDeserialize(tag.rest), LAMBDA r :
                        IF r.res # "Ok" THEN r ELSE DecOk(TezInt(r.val), r.rest))
               [] tag.val = 1 ->
                    Bind(ReadLengthPrefixed(tag.rest), LAMBDA r :
                        IF r.res # "Ok" THEN r
                        ELSE IF ~from_utf8_ok(r.val) THEN DecErr("MalformedData")
                        ELSE DecOk(TezString(r.val), r.rest))
               [] tag.val = 2 ->
                    Bind(ReadLengthPrefixed(tag.rest), LAMBDA r :
                        IF r.res # "Ok" THEN r
                        ELSE Bind(DeserializeList(r.val, <<>>), LAMBDA l :
                                 IF l.res # "Ok" THEN l ELSE DecOk(TezList(l.val), r.rest)))
               [] tag.val \in {3, 5, 7} ->
                    Bind(read_u8(tag.rest), LAMBDA sub_tag :
                        IF sub_tag.res # "Ok" THEN sub_tag
                        ELSE LET tags == <<tag.val, sub_tag.val>>
                                 prims == {p \in DOMAIN PrimTags : PrimTags[p] = tags}
                             IN  IF prims = {} THEN DecErr("Unsupported sub tag")
                                 ELSE ReadPrim(sub_tag.rest, CHOOSE p \in prims : TRUE,
                                               CASE tag.val = 3 -> 0
                                                 [] tag.val = 5 -> 1
                                                 [] tag.val = 7 -> 2))
               [] tag.val = 10 ->
                    Bind(ReadLengthPrefixed(tag.rest), LAMBDA r :
                        IF r.res # "Ok" THEN r ELSE DecOk(TezBytes(r.val), r.rest))
               [] OTHER -> DecErr("Unsupported tag"))

\* serialization::deserialize: one value, and the reader must be finished
deserialize(bytes, Read(_)) ==
    Bind(Read(bytes), LAMBDA r :
        IF r.res # "Ok" THEN r
        ELSE IF r.rest # <<>> THEN DecErr("UnreadData")
        ELSE r)

(***************************************************************************)
(* Operations: PubkeyHash, ContractId, TezosPubkey and EntrypointId, the   *)
(* three operation kinds and the TezosOperation envelope.  H160, H256 and  *)
(* H512 keep their widths of 20, 32 and 64 bytes.                          *)
(***************************************************************************)
H160Len == 20

H256Len == 32

H512Len == 64

CurveTypes == <<"ED25519", "SECP256K1", "P256">>

PubkeyHashSerialize(p) ==
    <<(CHOOSE i \in DOMAIN CurveTypes : CurveTypes[i] = p.curve_type) - 1>> \o p.hash

PubkeyHashDeserialize(bytes) ==
    Bind(read_u8(bytes), LAMBDA curve_tag :
        IF curve_tag.res # "Ok" THEN curve_tag
        ELSE IF curve_tag.val \notin {0, 1, 2} THEN DecErr("MalformedData")
        ELSE Bind(read_slice(curve_tag.rest, H160Len), LAMBDA hash :
                 IF hash.res # "Ok" THEN hash
                 ELSE DecOk([curve_type |-> CurveTypes[curve_tag.val + 1],
                             hash |-> hash.val], hash.rest)))

ContractIdSerialize(c) ==
    IF c.t = "PubkeyHash" THEN <<0>> \o PubkeyHashSerialize(c.hash)
    ELSE <<1>> \o c.hash \o <<0>>

ContractIdDeserialize(bytes) ==
    Bind(read_u8(bytes), LAMBDA tag :
        IF tag.res # "Ok" THEN tag
        ELSE CASE tag.val = 0 ->
                    Bind(PubkeyHashDeserialize(tag.rest), LAMBDA r :
                        IF r.res # "Ok" THEN r
                        ELSE DecOk([t |-> "PubkeyHash", hash |-> r.val], r.rest))
               [] tag.val = 1 ->
                    Bind(read_slice(tag.rest, H160Len), LAMBDA hash :
                        IF hash.res # "Ok" THEN hash
                        ELSE Bind(read_u8(hash.rest), LAMBDA padding :
                                 IF padding.res # "Ok" THEN padding
                                 ELSE DecOk([t |-> "Originated", hash |-> hash.val],
                                            padding.rest)))
               [] OTHER -> DecErr("MalformedData"))

\* prefix and data length of each public key tag
PubkeyPrefixes == <<[prefix |-> "ED_PK", len |-> 32], [prefix |-> "SECP_PK", len |-> 33],
                    [prefix |-> "P256_PK", len |-> 33]>>

TezosPubkeySerialize(k) ==
    <<(CHOOSE i \in DOMAIN PubkeyPrefixes : PubkeyPrefixes[i].prefix = k.prefix) - 1>>
    \o k.data

TezosPubkeyDeserialize(bytes) ==
    Bind(read_u8(bytes), LAMBDA tag :
        IF tag.res # "Ok" THEN tag
        ELSE IF tag.val \notin {0, 1, 2} THEN DecErr("Unsupported tag")
        ELSE Bind(read_slice(tag.rest, PubkeyPrefixes[tag.val + 1].len), LAMBDA data :
                 IF data.res # "Ok" THEN data
                 ELSE DecOk([prefix |-> PubkeyPrefixes[tag.val + 1].prefix,
                             data |-> data.val], data.rest)))

EntrypointIds == <<"Default", "Root", "Do", "SetDelegate", "RemoveDelegate">>

\* EntrypointId: one of EntrypointIds, or Named with the name's UTF-8 bytes
EntrypointId(id, name) == [id |-> id, name |-> name]

EntrypointIdSerialize(e) ==
    IF e.id = "Named" THEN <<255, Len(e.name) % 256>> \o e.name
    ELSE <<(CHOOSE i \in DOMAIN EntrypointIds : EntrypointIds[i] = e.id) - 1>>

EntrypointIdDeserialize(bytes) ==
    Bind(read_u8(bytes), LAMBDA tag :
        IF tag.res # "Ok" THEN tag
        ELSE IF tag.val \in 0..4
        THEN DecOk(EntrypointId(EntrypointIds[tag.val + 1], <<>>), tag.rest)
        ELSE IF tag.val = 255
        THEN Bind(read_u8(tag.rest), LAMBDA len :
                 IF len.res # "Ok" THEN len
                 ELSE Bind(read_slice(len.rest, len.val), LAMBDA name :
                          IF name.res # "Ok" THEN name
                          ELSE IF ~from_utf8_ok(name.val)
                          THEN DecErr("Error parsing bytes as UTF8")
                          ELSE DecOk(EntrypointId("Named", name.val), name.rest)))
        ELSE DecErr("Unsupported EntrypointId tag"))

ParametersSerialize(parameters) ==
    IF parameters = None THEN <<0>>
    ELSE LET bytes == TezosValueSerialize(Unwrap(parameters))
         IN  <<255>> \o to_be_bytes(Len(bytes) + 1) \o <<0>> \o bytes

\* &bytes[1..] panics on an empty vector
read_parameters(bytes) ==
    Bind(read_u8(bytes), LAMBDA has_parameters :
        IF has_parameters.res # "Ok" THEN has_parameters
        ELSE IF has_parameters.val = 0 THEN DecOk(None, has_parameters.rest)
        ELSE IF has_parameters.val = 255
        THEN Bind(ReadLengthPrefixed(has_parameters.rest), LAMBDA r :
                 IF r.res # "Ok" THEN r
                 ELSE IF Len(r.val) < 1 THEN CodecPanic
                 ELSE Bind(deserialize(Tail(r.val), TezosValueDeserialize), LAMBDA v :
                          IF v.res # "Ok" THEN v ELSE DecOk(Some(v.val), r.rest)))
        ELSE DecErr("MalformedData"))

BabylonParametersSerialize(parameters) ==
    IF parameters = None THEN <<0>>
    ELSE LET params == Unwrap(parameters)
             bytes == TezosValueSerialize(params.params)
         IN  <<255>> \o EntrypointIdSerialize(params.entrypoint)
                 \o to_be_bytes(Len(bytes)) \o bytes

read_babylon_parameters(bytes) ==
    Bind(read_u8(bytes), LAMBDA has_parameters :
        IF has_parameters.res # "Ok" THEN has_parameters
        ELSE IF has_parameters.val = 0 THEN DecOk(None, has_parameters.rest)
        ELSE IF has_parameters.val = 255
        THEN Bind(EntrypointIdDeserialize(has_parameters.rest), LAMBDA entrypoint :
                 IF entrypoint.res # "Ok" THEN entrypoint
                 ELSE Bind(ReadLengthPrefixed(entrypoint.rest), LAMBDA r :
                          IF r.res # "Ok" THEN r
                          ELSE Bind(deserialize(r.val, TezosValueDeserialize), LAMBDA v :
                                   IF v.res # "Ok" THEN v
                                   ELSE DecOk(Some([entrypoint |-> entrypoint.val,
                                                    params |-> v.val]), r.rest))))
        ELSE DecErr("MalformedData"))

\* reader.read()? of one field of an operation
ReadField(type, bytes) ==
    CASE type = "ContractId" -> ContractIdDeserialize(bytes)
      [] type = "PubkeyHash" -> PubkeyHashDeserialize(bytes)
      [] type = "TezosUint" -> TezosUintDeserialize(bytes)
      [] type = "TezosPubkey" -> TezosPubkeyDeserialize(bytes)
      [] type = "parameters" -> read_parameters(bytes)
      [] type = "babylon_parameters" -> read_babylon_parameters(bytes)

\* the fields of a struct literal, read in order, the first error returned
RECURSIVE ReadFields(_, _, _)
ReadFields(bytes, types, vals) ==
    IF types = <<>> THEN DecOk(vals, bytes)
    ELSE Bind(ReadField(Head(types), bytes), LAMBDA r :
             IF r.res # "Ok" THEN r
             ELSE ReadFields(r.rest, Tail(types), Append(vals, r.val)))

TezosTransaction(source, fee, counter, gas_limit, storage_limit, amount, destination,
                 parameters) ==
    [op |-> "Transaction", source |-> source, fee |-> fee, counter |-> counter,
     gas_limit |-> gas_limit, storage_limit |-> storage_limit, amount |-> amount,
     destination |-> destination, parameters |-> parameters]

BabylonTransaction(source, fee, counter, gas_limit, storage_limit, amount, destination,
                   parameters) ==
    [op |-> "BabylonTransaction", source |-> source, fee |-> fee, counter |-> counter,
     gas_limit |-> gas_limit, storage_limit |-> storage_limit, amount |-> amount,
     destination |-> destination, parameters |-> parameters]

RevealOp(source, fee, counter, gas_limit, storage_limit, public_key) ==
    [op |-> "Reveal", source |-> source, fee |-> fee, counter |-> counter,
     gas_limit |-> gas_limit, storage_limit |-> storage_limit, public_key |-> public_key]

UintFieldsSerialize(tx) ==
    big_uint_to_zarith_bytes(tx.fee) \o big_uint_to_zarith_bytes(tx.counter)
    \o big_uint_to_zarith_bytes(tx.gas_limit) \o big_uint_to_zarith_bytes(tx.storage_limit)

TezosTransactionSerialize(tx) ==
    ContractIdSerialize(tx.source) \o UintFieldsSerialize(tx)
    \o big_uint_to_zarith_bytes(tx.amount) \o ContractIdSerialize(tx.destination)
    \o ParametersSerialize(tx.parameters)

TezosTransactionDeserialize(bytes) ==
    Bind(ReadFields(bytes, <<"ContractId", "TezosUint", "TezosUint", "TezosUint", "TezosUint",
                       "TezosUint", "ContractId", "parameters">>, <<>>), LAMBDA r :
        IF r.res # "Ok" THEN r
        ELSE DecOk(TezosTransaction(r.val[1], r.val[2], r.val[3], r.val[4], r.val[5], r.val[6], r.val[7], r.val[8]),
                   r.rest))

BabylonTransactionSerialize(tx) ==
    PubkeyHashSerialize(tx.source) \o UintFieldsSerialize(tx)
    \o big_uint_to_zarith_bytes(tx.amount) \o ContractIdSerialize(tx.destination)
    \o BabylonParametersSerialize(tx.parameters)

BabylonTransactionDeserialize(bytes) ==
    Bind(ReadFields(bytes, <<"PubkeyHash", "TezosUint", "TezosUint", "TezosUint", "TezosUint",
                       "TezosUint", "ContractId", "babylon_parameters">>, <<>>), LAMBDA r :
        IF r.res # "Ok" THEN r
        ELSE DecOk(BabylonTransaction(r.val[1], r.val[2], r.val[3], r.val[4], r.val[5], r.val[6], r.val[7], r.val[8]),
                   r.rest))

RevealOpSerialize(tx) ==
    PubkeyHashSerialize(tx.source) \o UintFieldsSerialize(tx)
    \o TezosPubkeySerialize(tx.public_key)

RevealOpDeserialize(bytes) ==
    Bind(ReadFields(bytes, <<"PubkeyHash", "TezosUint", "TezosUint", "TezosUint", "TezosUint",
                       "TezosPubkey">>, <<>>), LAMBDA r :
        IF r.res # "Ok" THEN r
        ELSE DecOk(RevealOp(r.val[1], r.val[2], r.val[3], r.val[4], r.val[5], r.val[6]),
                   r.rest))

\* TezosOperation { branch, contents, signature }
SignedOperation(branch, contents, signature) ==
    [branch |-> branch, contents |-> contents, signature |-> signature]

RECURSIVE ContentsSerialize(_)
ContentsSerialize(contents) ==
    IF contents = <<>> THEN <<>>
    ELSE LET op == Head(contents) IN
         (CASE op.op = "Transaction" -> <<8>> \o TezosTransactionSerialize(op)
            [] op.op = "BabylonTransaction" -> <<108>> \o BabylonTransactionSerialize(op)
            [] op.op = "Reveal" -> <<107>> \o RevealOpSerialize(op))
         \o ContentsSerialize(Tail(contents))

TezosOperationSerialize(operation) ==
    operation.branch \o ContentsSerialize(operation.contents)
    \o (IF operation.signature = None THEN <<>> ELSE Unwrap(operation.signature))

\* let tag: u8 = reader.read()?; match tag { 8 | 107 | 108 => reader.read(), .. }
ReadOperation(buffer) ==
    Bind(read_u8(buffer), LAMBDA tag :
        IF tag.res # "Ok" THEN tag
        ELSE CASE tag.val = 8 -> TezosTransactionDeserialize(tag.rest)
               [] tag.val = 107 -> RevealOpDeserialize(tag.rest)
               [] tag.val = 108 -> BabylonTransactionDeserialize(tag.rest)
               [] OTHER -> DecErr("Unsupported tag"))

\* one turn of the loop of TezosOperation::deserialize on the buffer:
\* "return" with the function's result (the tag's ?, a panic, or Ok when the
\* reader is finished), "break" with (error, bytes_left), or "continue" with
\* the operation pushed and the unread bytes as the buffer
OperationLoopTurn(branch, contents, buffer) ==
    Bind(ReadOperation(buffer), LAMBDA op :
        IF buffer = <<>> \/ op.res = "panic" THEN [then |-> "return", result |-> op]
        ELSE IF op.res = "Err" THEN [then |-> "break", error |-> op, bytes_left |-> buffer]
        ELSE IF op.rest = <<>>
        THEN [then |-> "return",
              result |-> DecOk(SignedOperation(branch, Append(contents, op.val), None),
                               <<>>)]
        ELSE [then |-> "continue", contents |-> Append(contents, op.val),
              buffer |-> op.rest])

signature_length_any(bytes_left) == TRUE

signature_length(bytes_left) == Len(bytes_left) = H512Len

\* after the loop: the error unless exactly 64 bytes are left, else they are
\* the signature
AfterLoop(branch, contents, error, bytes_left) ==
    IF ~signature_length(bytes_left) THEN error
    ELSE LET sig == read_slice(bytes_left, H512Len) IN
         IF sig.res # "Ok" THEN sig
         ELSE DecOk(SignedOperation(branch, contents, Some(sig.val)), <<>>)

\* Inputs of the zarith codec: zero and both sides of every byte boundary.
ZarithUints == {0, 1, 63, 64, 127, 128, 8191, 8192, 16383, 16384, 1048575, 1048576, 2097151, 2097152}

ZarithInts == ZarithUints \cup {-n : n \in ZarithUints}

LongBytesLen == 300

ValueLeaves ==
    {TezInt(n) : n \in {0, -1, 64, -16384}}
    \cup {TezBytes(b) : b \in {<<>>, <<1, 255>>}}
    \cup {TezString(s) : s \in {<<>>, <<97, 98>>}}
    \cup {TezPrim(p, <<>>) : p \in {"Unit", "True", "False", "None"}}

ValuesDepth1 ==
    {TezPrim(p, <<a>>) : p \in {"Left", "Right", "Some"}, a \in ValueLeaves}
    \cup {TezPrim(p, <<a, b>>) : p \in {"Pair", "Elt"}, a, b \in ValueLeaves}
    \cup {TezList(<<>>)}
    \cup {TezList(<<a>>) : a \in ValueLeaves}
    \cup {TezList(<<a, b>>) : a, b \in ValueLeaves}

ValuesNested ==
    {TezBytes(Repeat(7, LongBytesLen)),
     TezPrim("Left", <<TezPrim("Pair", <<TezString(<<97>>),
                                         TezPrim("Right", <<TezBytes(<<0, 64>>)>>)>>)>>),
     TezList(<<TezPrim("Elt", <<TezInt(-64), TezList(<<TezInt(63), TezPrim("None", <<>>)>>)>>),
               TezPrim("Some", <<TezPrim("Some", <<TezPrim("Unit", <<>>)>>)>>)>>)}

TezosValues == ValueLeaves \cup ValuesDepth1 \cup ValuesNested

\* Inputs of the operation codec.
Branch == Repeat(1, H256Len)

SamplePubkeyHash == [curve_type |-> "ED25519", hash |-> Repeat(17, H160Len)]

SampleSource == [t |-> "PubkeyHash", hash |-> SamplePubkeyHash]

SampleContract == [t |-> "Originated", hash |-> Repeat(18, H160Len)]

\* a value whose serialization is 64 bytes long
Blob64 == TezBytes(Repeat(9, H512Len - 5))

SampleTransactions ==
    {TezosTransaction(SampleSource, 1420, 7, 10600, 300, 0, SampleContract, p) :
        p \in {None, Some(TezInt(-64)), Some(Blob64)}}

SampleBabylonTransactions ==
    {BabylonTransaction(SamplePubkeyHash, 1420, 8, 10600, 300, 1000000, SampleContract, p) :
        p \in {None,
               Some([entrypoint |-> EntrypointId("Default", <<>>),
                     params |-> TezPrim("Unit", <<>>)]),
               Some([entrypoint |-> EntrypointId("Named", <<100, 111>>),
                     params |-> Blob64])}}

SampleReveals ==
    {RevealOp(SamplePubkeyHash, 1269, 6, 10000, 0, k) :
        k \in {[prefix |-> "ED_PK", data |-> Repeat(33, 32)],
               [prefix |-> "SECP_PK", data |-> Repeat(34, 33)]}}

SampleOps == SampleTransactions \cup SampleBabylonTransactions \cup SampleReveals

SampleContents ==
    {<<a>> : a \in SampleOps}
    \cup {<<a, b>> : a, b \in SampleOps}
    \cup {<<a, b, c>> : a \in SampleReveals, b, c \in SampleOps}

\* 64 bytes that are the encoding of a Reveal (tag 107, nine zarith bytes)
RevealLikeSignature ==
    <<107>> \o RevealOpSerialize(RevealOp(SamplePubkeyHash, 128 ^ 2, 128, 128, 128,
                                          [prefix |-> "ED_PK", data |-> Repeat(0, 32)]))

\* 64 bytes that start as a legacy Transaction with a parameters length of 0
TransactionLikeSignature ==
    <<8>> \o ContractIdSerialize(SampleSource) \o <<0, 0, 0, 0, 0>>
    \o ContractIdSerialize(SampleContract) \o <<255, 0, 0, 0, 0>> \o Repeat(0, 9)

Signatures ==
    {Repeat(0, H512Len), Repeat(108, H512Len), Repeat(255, H512Len),
     RevealLikeSignature, TransactionLikeSignature}

SampleOperations ==
    {SignedOperation(Branch, contents, sig) :
        contents \in SampleContents, sig \in {None} \cup {Some(s) : s \in Signatures}}

Prefixes(bytes) == {SubSeq(bytes, 1, n) : n \in 0..Len(bytes)}

\* byte strings given to TezosOperation::deserialize: every prefix of a signed
\* two-operation encoding, and encodings followed by 63 to 65 bytes
OperationBytes ==
    LET tx == CHOOSE t \in SampleTransactions : t.parameters = Some(TezInt(-64))
        reveal == CHOOSE r \in SampleReveals : r.public_key.prefix = "ED_PK"
        encoded == TezosOperationSerialize(SignedOperation(Branch, <<reveal, tx>>, None))
    IN  Prefixes(encoded \o Repeat(0, H512Len))
        \cup {Branch \o Repeat(b, n) : b \in {0, 8, 107, 108}, n \in {63, 64, 65}}
        \cup {encoded \o Repeat(b, n) : b \in {0, 8, 107, 108}, n \in {63, 64, 65}}
        \cup {Branch \o SubSeq(TransactionLikeSignature, 1, n) : n \in 51..56}
        \cup {Branch \o TransactionLikeSignature \o <<0>>}

\* byte strings given to TezosValue's decoder: every prefix of the encoding
\* of a nested value, wrong tags, and lengths longer than the input
ValueBytes ==
    UNION {Prefixes(TezosValueSerialize(v)) : v \in ValuesNested \ {TezBytes(Repeat(7, LongBytesLen))}}
    \cup {<<t>> \o rest : t \in {0, 1, 2, 3, 4, 5, 7, 10, 255},
                         rest \in {<<>>, <<255>>, <<0, 0, 0, 1, 255>>, <<127, 255, 255, 255>>,
                                   <<0, 0, 0, 2, 3, 99>>, <<128, 128>>, <<3, 6>>}}

CodecInputs ==
    {[kind |-> "uint", num |-> n] : n \in ZarithUints}
    \cup {[kind |-> "int", num |-> n] : n \in ZarithInts}
    \cup {[kind |-> "value", value |-> v] : v \in TezosValues}
    \cup {[kind |-> "value_bytes", bytes |-> b] : b \in ValueBytes}
    \cup {[kind |-> "operation", operation |-> o] : o \in SampleOperations}
    \cup {[kind |-> "operation_bytes", bytes |-> b] : b \in OperationBytes}

RoundTrip(bytes, Read(_)) == Some([bytes |-> bytes, decoded |-> deserialize(bytes, Read)])

RoundTripUint ==
    /\ fnIn.kind = "uint"
    /\ fnOut = None
    /\ fnOut' = RoundTrip(big_uint_to_zarith_bytes(fnIn.num), TezosUintDeserialize)
    /\ UNCHANGED <<fnIn, lockVars, bookVars, matchVars, tezVars>>

RoundTripInt ==
    /\ fnIn.kind = "int"
    /\ fnOut = None
    /\ fnOut' = RoundTrip(big_int_to_zarith_bytes(fnIn.num), TezosIntDeserialize)
    /\ UNCHANGED <<fnIn, lockVars, bookVars, matchVars, tezVars>>

RoundTripValue ==
    /\ fnIn.kind = "value"
    /\ fnOut = None
    /\ fnOut' = RoundTrip(TezosValueSerialize(fnIn.value), TezosValueDeserialize)
    /\ UNCHANGED <<fnIn, lockVars, bookVars, matchVars, tezVars>>

CodecFrame == UNCHANGED <<fnIn, lockVars, bookVars, matchVars, tezVars>>

\* deserialize(bytes) of a byte string that no encoder of this file produced
DecodeValueBytes ==
    /\ fnIn.kind = "value_bytes"
    /\ fnOut = None
    /\ fnOut' = RoundTrip(fnIn.bytes, TezosValueDeserialize)
    /\ CodecFrame

SerializeOperation ==
    /\ fnIn.kind = "operation"
    /\ fnOut = None
    /\ fnOut' = Some([pc |-> "serialized", bytes |-> TezosOperationSerialize(fnIn.operation)])
    /\ CodecFrame

\* TezosOperation::deserialize up to the loop: the branch, then read_to_end
DeserializeOperation ==
    /\ \/ fnIn.kind = "operation_bytes" /\ fnOut = None
       \/ fnIn.kind = "operation" /\ fnOut # None /\ Unwrap(fnOut).pc = "serialized"
    /\ \E bytes \in {IF fnIn.kind = "operation_bytes" THEN fnIn.bytes
                     ELSE Unwrap(fnOut).bytes} :
             LET branch == read_slice(bytes, H256Len) IN
             fnOut' = Some(IF branch.res # "Ok" THEN [pc |-> "returned", result |-> branch]
                           ELSE [pc |-> "loop", branch |-> branch.val, contents |-> <<>>,
                                 buffer |-> branch.rest])
    /\ CodecFrame

\* one turn of the loop, and what follows a break
OperationLoop ==
    /\ fnIn.kind \in {"operation", "operation_bytes"}
    /\ fnOut # None
    /\ Unwrap(fnOut).pc = "loop"
    /\ \E turn \in {OperationLoopTurn(Unwrap(fnOut).branch, Unwrap(fnOut).contents,
                                      Unwrap(fnOut).buffer)} :
          fnOut' = Some(CASE turn.then = "return" -> [pc |-> "returned", result |-> turn.result]
                          [] turn.then = "break" ->
                                [pc |-> "returned",
                                 result |-> AfterLoop(Unwrap(fnOut).branch,
                                                      Unwrap(fnOut).contents,
                                                      turn.error, turn.bytes_left)]
                          [] turn.then = "continue" ->
                                [pc |-> "loop", branch |-> Unwrap(fnOut).branch,
                                 contents |-> turn.contents, buffer |-> turn.buffer])
    /\ CodecFrame

CodecInit ==
    fnIn \in CodecInputs /\ fnOut = None /\ LockIdle /\ BookIdle /\ MatchIdle /\ TezIdle

CodecNext ==
    \/ RoundTripUint
    \/ RoundTripInt
    \/ RoundTripValue
    \/ DecodeValueBytes
    \/ SerializeOperation
    \/ DeserializeOperation
    \/ OperationLoop

SpecCodec == CodecInit /\ [][CodecNext]_vars

\* every byte but the last has the continuation bit, the last has not
ContinuationBits(bytes) ==
    /\ bytes # <<>>
    /\ \A i \in DOMAIN bytes : BitSet(bytes[i], 7) <=> i < Len(bytes)

\* C22: decoding the encoding of an unsigned or signed zarith integer, or of
\* a TezosValue, gives the value back; a zarith encoding has the continuation
\* bit on every byte but the last, the sign of a signed integer is bit 6 of
\* its first byte, and zero is the single byte 0x00.
C22_CodecRoundTrip ==
    fnOut # None =>
        LET out == Unwrap(fnOut) IN
        /\ fnIn.kind \in {"uint", "int"} =>
              /\ out.decoded = DecOk(fnIn.num, <<>>)
              /\ ContinuationBits(out.bytes)
              /\ \A i \in DOMAIN out.bytes : out.bytes[i] \in 0..255
              /\ fnIn.num = 0 => out.bytes = <<0>>
        /\ fnIn.kind = "int" => (BitSet(out.bytes[1], 6) <=> fnIn.num < 0)
        /\ fnIn.kind = "value" => out.decoded = DecOk(fnIn.value, <<>>)

C22_Witness ==
    /\ fnOut # None
    /\ fnIn.kind = "int"
    /\ fnIn.num = -16384
    /\ Len(Unwrap(fnOut).bytes) = 3

OperationReturned ==
    /\ fnIn.kind \in {"operation", "operation_bytes"}
    /\ fnOut # None
    /\ Unwrap(fnOut).pc = "returned"

\* C23: deserializing the serialization of a TezosOperation of one to three
\* contents, signed with any 64 bytes or unsigned, gives the operation back:
\* a trailing signature is not read as a further operation.
C23_OperationRoundTrip ==
    fnIn.kind = "operation" /\ OperationReturned
        => Unwrap(fnOut).result = DecOk(fnIn.operation, <<>>)

\* C24: in a turn of the decoder's loop, when reading one more operation
\* fails and exactly 64 bytes are left from the start of that operation, the
\* result is Ok with those bytes as the signature and the operations read so
\* far; when it fails with another number of bytes left, the result is that
\* error; when the bytes end with an operation, the result is Ok without a
\* signature.
C24_TrailingSignatureFallback ==
    [][(/\ fnIn.kind \in {"operation", "operation_bytes"}
        /\ fnOut # None
        /\ Unwrap(fnOut).pc = "loop")
       => LET loop == Unwrap(fnOut)
              op == ReadOperation(loop.buffer)
              returns(result) == fnOut' = Some([pc |-> "returned", result |-> result])
          IN  /\ op.res = "Err" /\ Len(loop.buffer) = 64
                    => returns(DecOk(SignedOperation(loop.branch, loop.contents,
                                                     Some(loop.buffer)), <<>>))
              /\ op.res = "Err" /\ Len(loop.buffer) # 64 => returns(op)
              /\ op.res = "Ok" /\ op.rest = <<>>
                    => returns(DecOk(SignedOperation(loop.branch,
                                                     Append(loop.contents, op.val),
                                                     None), <<>>))]_vars

C24_Witness ==
    /\ fnIn.kind = "operation_bytes"
    /\ OperationReturned
    /\ Unwrap(fnOut).result.res = "Ok"
    /\ Len(Unwrap(fnOut).result.val.contents) = 2
    /\ Unwrap(fnOut).result.val.signature
          = Some(SubSeq(fnIn.bytes, Len(fnIn.bytes) - 63, Len(fnIn.bytes)))
    /\ fnIn.bytes[Len(fnIn.bytes) - 63] = 108

\* C25: decoding a byte string as a TezosOperation or as a TezosValue never
\* panics: a legacy Transaction with the parameters flag 255 and a length of
\* 0 gives a decode error.
C25_DecodingNeverPanics ==
    /\ OperationReturned => Unwrap(fnOut).result.res # "panic"
    /\ fnIn.kind \in {"value", "value_bytes"} /\ fnOut # None
          => Unwrap(fnOut).decoded.res # "panic"

(***************************************************************************)
(* buy, sell and setprice with inputs the builders reject.                 *)
(***************************************************************************)
\* buy and sell have rejected equal tickers and coins that are not enabled
AutoBuyInputs ==
    [base : {"A"}, rel : {"B"}, volume : {MmInt(5), Rat(1, 1000)},
     price : {MmInt(1), Rat(1, 200000000), Rat(1, 1000)}, method : {"buy", "sell"}]

SetPriceReqs ==
    [base : {"A"}, rel : {"B", "A"}, volume : {MmInt(10), Rat(1, 1000)},
     min_volume : {MmInt(1), Rat(1, 1000)},
     price : {MmInt(1), Rat(1, 200000000), Rat(1, 10000)}, cancel_previous : BOOLEAN]

LpAutoBuyInput ==
    \E uuid \in MatchTakerUuids : \E input \in AutoBuyInputs :
        lp_auto_buy(uuid, input, "GoodTillCancelled")

SetPriceInput ==
    \E uuid \in MatchMakerUuids : \E req \in SetPriceReqs : set_price(uuid, req)

ValidateNext == LpAutoBuyInput \/ SetPriceInput

SpecValidate == Init /\ [][ValidateNext]_vars

\* C26: a buy, sell or setprice call that is rejected by validation returns
\* an error and changes nothing: no broadcast, no order in my_taker_orders or
\* my_maker_orders, no order file, no change to the orderbook or to its topic
\* subscriptions.
C26_RejectedCallsHaveNoEffect ==
    [][(matchSteps' # matchSteps /\ matchLog'.op = "rejected")
       => UNCHANGED <<broadcast, my_taker_orders, my_maker_orders, orderFiles, orderbook,
                      swaps, usedUuids>>]_vars

(***************************************************************************)
(* The message handlers on messages that name orders and matches this node *)
(* does not have.                                                          *)
(***************************************************************************)
MaxDropSteps == 4

DropBound == matchSteps + bookSteps < MaxDropSteps

DropNext ==
    \/ DropBound /\ SetPrice
    \/ DropBound /\ LpAutoBuy
    \/ DropBound /\ ProcessTakerRequest
    \/ DropBound /\ ProcessMakerReserved
    \/ DropBound /\ ProcessTakerConnect
    \/ DropBound /\ ProcessMakerConnected
    \/ DropBound /\ BookMakerOrderCreated
    \/ DropBound /\ BookMakerOrderUpdated

SpecDrop == Init /\ [][DropNext]_vars

Dropped == UNCHANGED <<my_maker_orders, my_taker_orders, orderbook, broadcast, swaps>>

\* C27: a MakerReserved for an unknown taker order, a TakerConnect for an
\* unknown maker order or match, a MakerConnected for an unknown taker order
\* or match and a MakerOrderUpdated for an unknown uuid leave my_maker_orders,
\* my_taker_orders and the orderbook unchanged, broadcast nothing and start
\* no swap.
C27_UnknownReferencesAreDropped ==
    [][/\ (matchSteps' # matchSteps /\ matchLog'.op = "MakerReserved"
           /\ matchLog'.taker_order_uuid \notin DOMAIN my_taker_orders) => Dropped
       /\ (matchSteps' # matchSteps /\ matchLog'.op = "TakerConnect"
           /\ \/ matchLog'.maker_order_uuid \notin DOMAIN my_maker_orders
              \/ matchLog'.taker_order_uuid
                    \notin DOMAIN my_maker_orders[matchLog'.maker_order_uuid].matches)
             => Dropped
       /\ (matchSteps' # matchSteps /\ matchLog'.op = "MakerConnected"
           /\ \/ matchLog'.taker_order_uuid \notin DOMAIN my_taker_orders
              \/ matchLog'.maker_order_uuid
                    \notin DOMAIN my_taker_orders[matchLog'.taker_order_uuid].matches)
             => Dropped
       /\ (bookSteps' # bookSteps /\ bookLog'.op = "MakerOrderUpdated"
           /\ bookLog'.uuid \notin DOMAIN orderbook.order_set) => Dropped]_vars

C27_Witness ==
    /\ matchLog.op = "TakerConnect"
    /\ ~matchLog.hit
    /\ matchLog.maker_order_uuid \in DOMAIN my_maker_orders
    /\ matchLog.taker_order_uuid
          \notin DOMAIN my_maker_orders[matchLog.maker_order_uuid].matches
    /\ bookLog.op = "MakerOrderUpdated"
    /\ bookLog.uuid \notin DOMAIN orderbook.order_set
    /\ orderbook.order_set # <<>>

(***************************************************************************)
(* The AsyncMutex discipline of lp_ordermatch.rs.  A task is a graph of    *)
(* steps: lock().await of one mutex, the drop of guards at the end of a    *)
(* scope or at a return, and the sleep of the loop.  A position is named   *)
(* by the source line the task runs next.                                  *)
(***************************************************************************)
Edge(from, op, m, to) == [from |-> from, op |-> op, m |-> m, to |-> to]

\* maker_order_cancelled_p2p_notify: delete_my_order locks the orderbook and lets go
CancelledNotify(from, to) ==
    {Edge(from, "lock", {"orderbook"}, "350"), Edge("350", "unlock", {"orderbook"}, to)}

lp_ordermatch_loop ==
    {Edge("start", "lock", {"my_taker_orders"}, "2136"),
     Edge("2136", "lock", {"my_maker_orders"}, "2137"),
     Edge("2137", "lock", {"my_cancelled_orders"}, "2139"),
     \* an order whose available amount fell below min_base_vol is cancelled
     Edge("2139", "unlock", {"my_cancelled_orders", "my_maker_orders", "my_taker_orders"},
          "2190"),
     Edge("2190", "lock", {"orderbook"}, "2191"),
     Edge("2191", "unlock", {"orderbook"}, "2217"),
     Edge("2217", "lock", {"my_maker_orders"}, "2218"),
     \* for every maker order: is it in the orderbook
     Edge("2218", "lock", {"orderbook"}, "2219"),
     Edge("2219", "unlock", {"orderbook"}, "2218"),
     Edge("2218", "unlock", {"my_maker_orders"}, "2229"),
     Edge("2229", "sleep", {}, "start")}
    \cup CancelledNotify("2139", "2139")

cancel_orders_by ==
    {Edge("start", "lock", {"my_maker_orders"}, "3026"),
     Edge("3026", "lock", {"my_taker_orders"}, "3101"),
     Edge("3101", "unlock", {"my_taker_orders", "my_maker_orders"}, "start")}
    \cup CancelledNotify("3101", "3101")

cancel_order ==
    {Edge("start", "lock", {"my_maker_orders"}, "2836"),
     \* a maker order that is being matched
     Edge("2836", "unlock", {"my_maker_orders"}, "start"),
     \* a maker order that is cancelled
     Edge("2843", "unlock", {"my_maker_orders"}, "start"),
     \* no maker order of that uuid
     Edge("2836", "lock", {"my_taker_orders"}, "2855"),
     Edge("2855", "unlock", {"my_taker_orders", "my_maker_orders"}, "start")}
    \cup CancelledNotify("2836", "2843")

my_orders ==
    {Edge("start", "lock", {"my_maker_orders"}, "2919"),
     Edge("2919", "lock", {"my_taker_orders"}, "2920"),
     Edge("2920", "unlock", {"my_taker_orders", "my_maker_orders"}, "start")}

order_status ==
    {Edge("start", "lock", {"my_maker_orders"}, "2796"),
     Edge("2796", "unlock", {"my_maker_orders"}, "start"),
     Edge("2796", "lock", {"my_taker_orders"}, "2807"),
     Edge("2807", "unlock", {"my_taker_orders", "my_maker_orders"}, "start")}

process_maker_reserved ==
    {Edge("start", "lock", {"my_taker_orders"}, "2243"),
     Edge("2243", "unlock", {"my_taker_orders"}, "start")}

process_maker_connected ==
    {Edge("start", "lock", {"my_taker_orders"}, "2282"),
     Edge("2282", "unlock", {"my_taker_orders"}, "start")}

process_taker_request ==
    {Edge("start", "lock", {"my_maker_orders"}, "2328"),
     Edge("2328", "unlock", {"my_maker_orders"}, "start")}

\* maker_order_updated_p2p_notify: process_my_maker_order_updated locks the orderbook
process_taker_connect ==
    {Edge("start", "lock", {"my_maker_orders"}, "2385"),
     Edge("2385", "lock", {"orderbook"}, "720"),
     Edge("720", "unlock", {"orderbook"}, "2428"),
     Edge("2385", "unlock", {"my_maker_orders"}, "start"),
     Edge("2428", "unlock", {"my_maker_orders"}, "start")}

\* the mutexes a task holds
Held(t) == {m \in Mutexes : mutexes[m] = Some(t)}

\* one step of a task: lock().await resolves only when the mutex is free
TaskStep(t, edges) ==
    \E e \in edges :
        /\ tasks[t] = e.from
        /\ tasks' = [tasks EXCEPT ![t] = e.to]
        /\ mutexes' =
              [m \in Mutexes |->
                  IF m \in e.m
                  THEN (IF e.op = "lock" THEN Some(t) ELSE None)
                  ELSE mutexes[m]]
        /\ e.op = "lock" => \A m \in e.m : mutexes[m] = None
        /\ e.op = "unlock" => e.m \subseteq Held(t)
        /\ UNCHANGED <<fnIn, fnOut, bookVars, matchVars, tezVars>>

LpOrdermatchLoopLocks == TaskStep("lp_ordermatch_loop", lp_ordermatch_loop)

CancelOrdersByLocks == TaskStep("cancel_orders_by", cancel_orders_by)

CancelOrderLocks == TaskStep("cancel_order", cancel_order)

MyOrdersLocks == TaskStep("my_orders", my_orders)

OrderStatusLocks == TaskStep("order_status", order_status)

ProcessMakerReservedLocks == TaskStep("process_maker_reserved", process_maker_reserved)

ProcessMakerConnectedLocks == TaskStep("process_maker_connected", process_maker_connected)

ProcessTakerRequestLocks == TaskStep("process_taker_request", process_taker_request)

ProcessTakerConnectLocks == TaskStep("process_taker_connect", process_taker_connect)

LocksNext ==
    \/ LpOrdermatchLoopLocks
    \/ CancelOrdersByLocks
    \/ CancelOrderLocks
    \/ MyOrdersLocks
    \/ OrderStatusLocks
    \/ ProcessMakerReservedLocks
    \/ ProcessMakerConnectedLocks
    \/ ProcessTakerRequestLocks
    \/ ProcessTakerConnectLocks

SpecLocks == Init /\ [][LocksNext]_vars

Programs ==
    [lp_ordermatch_loop |-> lp_ordermatch_loop, cancel_orders_by |-> cancel_orders_by,
     cancel_order |-> cancel_order, my_orders |-> my_orders, order_status |-> order_status,
     process_maker_reserved |-> process_maker_reserved,
     process_maker_connected |-> process_maker_connected,
     process_taker_request |-> process_taker_request,
     process_taker_connect |-> process_taker_connect]

\* the mutexes whose lock().await is every way the task has to go on
Awaited(t) ==
    LET out == {e \in Programs[t] : e.from = tasks[t]}
    IN  IF \A e \in out : e.op = "lock" THEN UNION {e.m : e \in out} ELSE {}

\* the task waits: whatever it may lock next is held by another task
Waits(t) == Awaited(t) # {} /\ \A m \in Awaited(t) : mutexes[m] \notin {None, Some(t)}

\* tasks that wait on each other forever: each waits, and only for mutexes that tasks
\* of the set hold
Deadlocked ==
    \E S \in SUBSET LockTasks :
        /\ S # {}
        /\ \A t \in S : Waits(t) /\ \A m \in Awaited(t) : \E u \in S : mutexes[m] = Some(u)

\* the mutexes the task may lock next
NextLocks(t) == UNION {e.m : e \in {e \in Programs[t] : e.from = tasks[t] /\ e.op = "lock"}}

\* a task locks the orderbook only when it holds no order map
OrderbookAfterOrderMaps ==
    \A t \in LockTasks :
        "orderbook" \in NextLocks(t)
            => Held(t) \cap {"my_maker_orders", "my_taker_orders"} = {}

\* a task that holds the orderbook locks nothing else
OrderMapsBeforeOrderbook == \A t \in LockTasks : "orderbook" \in Held(t) => NextLocks(t) = {}

\* no task locks my_maker_orders holding my_taker_orders while another locks them
\* the other way round
SameRelativeOrder ==
    \A t, u \in LockTasks :
        ~ /\ "my_taker_orders" \in Held(t) /\ "my_maker_orders" \in NextLocks(t)
          /\ "my_maker_orders" \in Held(u) /\ "my_taker_orders" \in NextLocks(u)

\* C28: no interleaving of lp_ordermatch_loop with cancel_order, cancel_orders_by,
\* my_orders, order_status and the message handlers reaches a state in which
\* tasks wait on each other forever: the tasks lock my_maker_orders,
\* my_taker_orders and the orderbook in one global order.
C28_NoDeadlock == ~Deadlocked

\* the call is inside its loop: the block_header(since_branch) before the loop of
\* wait_for_operation_confirmation has answered
Polling == WaitRuns /\ waits.pc # "since_block_header"

\* the ends the loops have apart from a failed RPC: Ok, a status that is not applied,
\* a refunded payment, the deadline
FatalOrDeadline == {Some("status"), Some("refunded"), Some("timeout")}

\* C29: a wait_for_operation_confirmation or wait_for_tx_spend that is inside its
\* loop ends only with success, with a fatal status or with the deadline; an RPC
\* call that fails before the deadline does not end it.
C29_RpcFailuresAreRetried ==
    [][(Polling /\ waits'.pc = "returned")
          => (waits'.result = "Ok" \/ waits'.failed_at \in FatalOrDeadline)]_vars

\* the same for wait_for_tx_spend alone
SpendFailuresAreRetried ==
    [][(Polling /\ waits.fn = "wait_for_tx_spend" /\ waits'.pc = "returned")
          => (waits'.result = "Ok" \/ waits'.failed_at \in FatalOrDeadline)]_vars

\* ORDER_MATCH_TIMEOUT has elapsed since last_updated and connected is unset
match_timed_out(order_match) ==
    /\ order_match.connected = None
    /\ order_match.last_updated + ORDER_MATCH_TIMEOUT * 1000 <= now_ms

TimedOutMatches(order) == {t \in DOMAIN order.matches : match_timed_out(order.matches[t])}

ConnectedMatches(order) == {t \in DOMAIN order.matches : order.matches[t].connected # None}

\* the first block of lp_ordermatch_loop has run
LoopMatchesDone == loopPc = 1 /\ loopPc' = 2

\* the orders the step has kept, with their matches before and after it
ExpiryOf(before, after) ==
    \A u \in DOMAIN before \cap DOMAIN after :
        /\ TimedOutMatches(before[u]) \cap DOMAIN after[u].matches = {}
        /\ ConnectedMatches(before[u]) \subseteq DOMAIN after[u].matches

\* the MakerMatch half with the amount: what the timed out matches had reserved is
\* available again
MakerMatchExpiry ==
    [][LoopMatchesDone
          => /\ ExpiryOf(my_maker_orders, my_maker_orders')
             /\ \A u \in DOMAIN my_maker_orders \cap DOMAIN my_maker_orders' :
                    available_amount(my_maker_orders'[u])
                        = MmAdd(available_amount(my_maker_orders[u]),
                                ReservedSum(my_maker_orders[u].matches,
                                            TimedOutMatches(my_maker_orders[u])))]_vars

\* C30: the first block of lp_ordermatch_loop removes from the matches of every maker
\* order and of every taker order it keeps each match whose connected is unset and
\* whose last_updated is ORDER_MATCH_TIMEOUT or more ago, and removes no match whose
\* connected is set.
C30_MatchExpiry ==
    [][LoopMatchesDone
          => /\ ExpiryOf(my_maker_orders, my_maker_orders')
             /\ ExpiryOf(my_taker_orders, my_taker_orders')]_vars

\* the maker orders have made a reservation and the loop has removed the match
MakerMatchExpired ==
    /\ loopPc = 2
    /\ my_maker_orders # <<>>
    /\ \A u \in DOMAIN my_maker_orders :
          /\ my_maker_orders[u].matches = <<>>
          /\ available_amount(my_maker_orders[u]) = my_maker_orders[u].max_base_vol
          /\ u \in DOMAIN orderFiles.maker
          /\ orderFiles.maker[u].matches = <<>>
    /\ nowSec >= ORDER_MATCH_TIMEOUT
    /\ \E msg \in DOMAIN broadcast : msg.type = "MakerReserved"

(***************************************************************************)
(* TrieDiffHistory on its own: any sequence of insert_new_diff calls, and  *)
(* the chain walk of DeltaOrFullTrie::from_history.                        *)
(***************************************************************************)
DiffRoots == {TrieRoot(<<>>), TrieRoot([u1 |-> 1]), TrieRoot([u1 |-> 2])}

DiffDeltas == {<<>>, <<<<"u1", Some(1)>>>>}

TrieDiffs == {TrieDiff(delta, next_root) : delta \in DiffDeltas, next_root \in DiffRoots}

DiffHistoryInit ==
    /\ fnIn = [kind |-> "history", inner |-> EmptyMap]
    /\ fnOut = None
    /\ LockIdle
    /\ BookIdle
    /\ MatchIdle
    /\ TezIdle

\* history.insert_new_diff(insert_at, diff); the result keeps what a second call with
\* the same arguments would leave
InsertNewDiff ==
    \E insert_at \in DiffRoots, diff \in TrieDiffs :
    \E once \in {insert_new_diff(fnIn.inner, insert_at, diff)} :
        /\ fnIn' = [fnIn EXCEPT !.inner = once]
        /\ fnOut' = Some([op |-> "insert_new_diff", insert_at |-> insert_at, diff |-> diff,
                          before |-> fnIn.inner, once |-> once,
                          twice |-> insert_new_diff(once, insert_at, diff)])
        /\ UNCHANGED <<lockVars, bookVars, matchVars, tezVars>>

\* DeltaOrFullTrie::from_history(history, from_hash, from_hash, db) on an empty db
FromHistory ==
    \E from_hash \in DiffRoots :
        /\ fnOut' = Some([op |-> "from_history", from_hash |-> from_hash,
                          result |-> from_history(fnIn.inner, from_hash, from_hash,
                                                  EmptyMap)])
        /\ UNCHANGED <<fnIn, lockVars, bookVars, matchVars, tezVars>>

DiffHistoryNext == InsertNewDiff \/ FromHistory

SpecDiffHistory == DiffHistoryInit /\ [][DiffHistoryNext]_vars

Inserted == fnOut # None /\ Unwrap(fnOut).op = "insert_new_diff"

\* C31: the history after inserting (insert_at, diff) twice equals the history after
\* inserting it once, and inserting a diff with insert_at = diff.next_root leaves
\* the history unchanged.
C31_InsertNewDiffIdempotent ==
    Inserted =>
        /\ Unwrap(fnOut).twice = Unwrap(fnOut).once
        /\ Unwrap(fnOut).insert_at = Unwrap(fnOut).diff.next_root
              => Unwrap(fnOut).once = Unwrap(fnOut).before

\* the second half alone
InsertAtNextRootIsNoOp ==
    (Inserted /\ Unwrap(fnOut).insert_at = Unwrap(fnOut).diff.next_root)
        => Unwrap(fnOut).once = Unwrap(fnOut).before

\* the first half where next_root was no key of the history
InsertOfNewStateIdempotent ==
    (Inserted /\ Unwrap(fnOut).diff.next_root \notin DOMAIN Unwrap(fnOut).before)
        => Unwrap(fnOut).twice = Unwrap(fnOut).once

\* the keys the next_root links lead to from root, root left out
RECURSIVE NextRoots(_, _, _)
NextRoots(inner, root, steps) ==
    IF steps = 0 \/ root \notin DOMAIN inner THEN {}
    ELSE {inner[root].next_root} \cup NextRoots(inner, inner[root].next_root, steps - 1)

Acyclic(inner) ==
    \A k \in DOMAIN inner : k \notin NextRoots(inner, k, Cardinality(DOMAIN inner))

\* C32: after any sequence of insert_new_diff calls, following next_root links from a
\* key never returns to a key already visited, and the chain walk of from_history
\* ends.
C32_HistoryAcyclic ==
    /\ Acyclic(fnIn.inner)
    /\ (fnOut # None /\ Unwrap(fnOut).op = "from_history")
          => Unwrap(fnOut).result.status # "diverges"

\* a chain of two links was walked from its first key
C32_Witness ==
    /\ fnOut # None
    /\ Unwrap(fnOut).op = "from_history"
    /\ Unwrap(fnOut).result.status = "ok"
    /\ Unwrap(fnOut).from_hash \in DOMAIN fnIn.inner
    /\ fnIn.inner[Unwrap(fnOut).from_hash].next_root \in DOMAIN fnIn.inner

(***************************************************************************)
(* The taker's side of the swap start: the node buys, a maker reserves,    *)
(* the node connects, and the maker's MakerConnected is delivered while    *)
(* lp_ordermatch_loop runs.  The coins stay enabled.                       *)
(***************************************************************************)
\* the MakerConnected of the maker that owns the order arrives
MakerConnectedDelivered ==
    \E message \in PeerMakerConnecteds :
        MakerConnectedHandled(message, PeerOrderOwner[message.maker_order_uuid], TRUE)

SwapStartNext ==
    \/ LpAutoBuy
    \/ ProcessMakerReserved
    \/ MakerConnectedDelivered
    \/ LoopMatches
    \/ LoopPurge
    \/ LoopAnnounce
    \/ MatchTick

SpecSwapStart == Init /\ [][SwapStartNext]_vars

TakerSwapsOf(started, t) == {swap \in DOMAIN started : swap.role = "taker" /\ swap.order = t}

\* the node has sent TakerConnect for the pair and has started no taker swap for the
\* order: the maker that answers starts the maker swap
AwaitsMakerConnected(t, m) ==
    /\ SentFor("TakerConnect", t, m) > 0
    /\ TakerSwapsOf(swaps, t) = {}

\* C33: when the MakerConnected that answers the node's TakerConnect for taker order
\* T is delivered, the taker order is still present and the taker swap for T
\* starts, whatever lp_ordermatch_loop has done in between.
C33_SwapStartIsTwoSided ==
    [][(/\ matchSteps' # matchSteps
        /\ matchLog'.op = "MakerConnected"
        /\ AwaitsMakerConnected(matchLog'.taker_order_uuid, matchLog'.maker_order_uuid))
          => /\ matchLog'.hit
             /\ TakerSwapsOf(swaps', matchLog'.taker_order_uuid) # {}]_vars

\* lp_ordermatch_loop keeps a taker order that has a match
LoopKeepsMatchedTakerOrders ==
    [][LoopMatchesDone
          => \A t \in DOMAIN my_taker_orders :
                my_taker_orders[t].matches # <<>> => t \in DOMAIN my_taker_orders']_vars

\* the same delivery while the taker order is younger than TAKER_ORDER_TIMEOUT
SwapStartBeforeTimeout ==
    [][(/\ matchSteps' # matchSteps
        /\ matchLog'.op = "MakerConnected"
        /\ AwaitsMakerConnected(matchLog'.taker_order_uuid, matchLog'.maker_order_uuid)
        /\ nowSec <= TAKER_ORDER_TIMEOUT)
          => /\ matchLog'.hit
             /\ TakerSwapsOf(swaps', matchLog'.taker_order_uuid) # {}]_vars

(***************************************************************************)
(* Ownership of the orders of order_set.                                   *)
(***************************************************************************)
\* the step replaced, updated or removed the order stored under uuid
OrderTouched(uuid) ==
    /\ uuid \in DOMAIN orderbook.order_set
    /\ uuid \in DOMAIN orderbook'.order_set
          => orderbook'.order_set[uuid] # orderbook.order_set[uuid]

\* the step handled a MakerOrderCreated, MakerOrderUpdated or MakerOrderCancelled
\* signed by pubkey
SignedBy(pubkey) ==
    /\ bookSteps' # bookSteps
    /\ bookLog'.op \in {"MakerOrderCreated", "MakerOrderUpdated", "MakerOrderCancelled"}
    /\ bookLog'.from_pubkey = pubkey

\* the step applied the response to a sync request for the state of pubkey
SyncOf(pubkey) == IsSome(pendingSync) /\ pendingSync' = None /\ Unwrap(pendingSync).pubkey = pubkey

\* the step dropped pubkey for its missing keep-alives
PurgeOf(pubkey) ==
    /\ bookSteps' # bookSteps
    /\ bookLog' = NoLog
    /\ pubkey \in DOMAIN orderbook.pubkeys_state
    /\ pubkey \notin DOMAIN orderbook'.pubkeys_state

\* C34: an order stored in order_set under pubkey P is replaced, updated or removed
\* only by a message signed by P, by a sync of P's state or by P's timeout purge.
C34_OrderOwnershipIntegrity ==
    [][\A uuid \in DOMAIN orderbook.order_set :
          OrderTouched(uuid)
              => \/ SignedBy(orderbook.order_set[uuid].pubkey)
                 \/ SyncOf(orderbook.order_set[uuid].pubkey)
                 \/ PurgeOf(orderbook.order_set[uuid].pubkey)]_vars

\* the messages that look the order up first respect the owner
UpdatedAndCancelledRespectOwner ==
    [][\A uuid \in DOMAIN orderbook.order_set :
          (/\ OrderTouched(uuid)
           /\ bookSteps' # bookSteps
           /\ bookLog'.op \in {"MakerOrderUpdated", "MakerOrderCancelled"})
              => bookLog'.from_pubkey = orderbook.order_set[uuid].pubkey]_vars

(***************************************************************************)
(* The roots process_orders_keep_alive stores from a sync response.        *)
(***************************************************************************)
\* the step applied a response to the pending request without a panic
SyncApplied ==
    /\ IsSome(pendingSync)
    /\ pendingSync' = None
    /\ bookSteps' # bookSteps
    /\ ~bookPanic'

RootChanged(pubkey, pair) ==
    CachedRoot(orderbook', pubkey, pair) # CachedRoot(orderbook, pubkey, pair)

\* C35: applying a sync response changes the root of trie_roots only for pairs that
\* were requested, and the root stored for such a pair is the one the keep-alive
\* advertised for it.
C35_SyncedRootsAreAdvertisedRoots ==
    [][SyncApplied
          => \A pair \in BookAlbPairs :
                RootChanged(Unwrap(pendingSync).pubkey, pair)
                    => /\ pair \in DOMAIN Unwrap(pendingSync).trie_roots
                       /\ CachedRoot(orderbook', Unwrap(pendingSync).pubkey, pair)
                              = Unwrap(pendingSync).trie_roots[pair]]_vars

\* C36: applying the sync response never panics: the state of from_pubkey is still
\* there when the orderbook lock is taken again, whatever ran in between, and a Delta
\* is only applied to a pair whose local trie exists.
C36_SyncResponseNeverPanics == ~bookPanic

\* the expect on the pubkey state alone: the state of the requested pubkey is there
\* as long as the request is pending
PubkeyStateExistsWhilePending ==
    IsSome(pendingSync) => Unwrap(pendingSync).pubkey \in DOMAIN orderbook.pubkeys_state

(***************************************************************************)
(* Confirmation settings of the two sides of one match.                    *)
(*                                                                         *)
(* The maker order's conf_settings, the taker's request and the coin       *)
(* configuration of each node are drawn from bounded sets.  The request    *)
(* reaches the maker and the reservation reaches the taker through their   *)
(* wire forms.  lp_connect_start_bob computes the maker's pair from the    *)
(* order and its match, lp_connected_alice the taker's pair from the       *)
(* request and its match, each with the coins of its own node.             *)
(***************************************************************************)
NodeCoins == {[A |-> c1, B |-> c2] : c1 \in FnCoins, c2 \in FnCoins}

ConfPairInputs ==
    {[kind |-> "conf_pair", order_confs |-> mc,
      taker_req |-> FnRequest(<<"A", "B">>, MmInt(1), MmInt(1), a, Some(tc)),
      maker_node |-> mn, taker_node |-> tn] :
        mc \in FnOptSettings, tc \in FnSettings, a \in {"Buy", "Sell"},
        mn \in NodeCoins, tn \in NodeCoins}

ConfPairInit ==
    /\ fnIn \in ConfPairInputs
    /\ fnOut = None
    /\ LockIdle
    /\ BookIdle
    /\ MatchIdle
    /\ TezIdle

\* The request as the maker holds it in its MakerMatch.
ConfPairRequest ==
    TakerRequest_from_new_proto_and_pubkey(TakerRequestIntoProto(fnIn.taker_req), "taker")

\* The reservation process_taker_request builds and stores in the MakerMatch.
ConfPairReserved ==
    MakerReserved("A", "B", MmInt(1), MmInt(1), "t1", "m1", "me", "taker",
                  reserved_conf_settings(fnIn.order_confs, fnIn.maker_node["A"],
                                         fnIn.maker_node["B"]))

\* The reservation as the taker holds it in its TakerMatch.
ConfPairReservedReceived ==
    MakerReserved_from_new_proto_and_pubkey(MakerReservedIntoProto(ConfPairReserved), "me")

ConfPairSide(side) ==
    IF fnOut = None THEN None ELSE Unwrap(fnOut)[side]

AtomicLocktimeV2(my_conf_settings, other_conf_settings) ==
    [version |-> "V2", my_conf_settings |-> my_conf_settings,
     other_conf_settings |-> other_conf_settings]

AtomicLocktimeV1 == [version |-> "V1"]

lp_connect_start_bob ==
    /\ fnIn.kind = "conf_pair"
    /\ ConfPairSide("maker") = None
    /\ LET request == ConfPairRequest
           reserved == ConfPairReserved
           maker_coin == fnIn.maker_node[reserved.base]
           taker_coin == fnIn.maker_node[reserved.rel]
           my_conf_settings ==
               choose_maker_confs_and_notas(fnIn.order_confs, request, maker_coin, taker_coin)
           atomic_locktime_v ==
               IF IsSome(request.conf_settings)
               THEN AtomicLocktimeV2(my_conf_settings,
                        choose_taker_confs_and_notas(request, reserved, maker_coin, taker_coin))
               ELSE AtomicLocktimeV1
       IN  fnOut' = Some([maker |-> Some(atomic_locktime_v), taker |-> ConfPairSide("taker")])
    /\ UNCHANGED <<fnIn, lockVars, bookVars, matchVars, tezVars>>

lp_connected_alice ==
    /\ fnIn.kind = "conf_pair"
    /\ ConfPairSide("taker") = None
    /\ LET taker_request == fnIn.taker_req
           reserved == ConfPairReservedReceived
           maker_coin == fnIn.taker_node[reserved.base]
           taker_coin == fnIn.taker_node[reserved.rel]
           my_conf_settings ==
               choose_taker_confs_and_notas(taker_request, reserved, maker_coin, taker_coin)
           atomic_locktime_v ==
               IF IsSome(reserved.conf_settings)
               THEN AtomicLocktimeV2(my_conf_settings,
                        choose_maker_confs_and_notas(reserved.conf_settings, taker_request,
                                                     maker_coin, taker_coin))
               ELSE AtomicLocktimeV1
       IN  fnOut' = Some([maker |-> ConfPairSide("maker"), taker |-> Some(atomic_locktime_v)])
    /\ UNCHANGED <<fnIn, lockVars, bookVars, matchVars, tezVars>>

ConfPairNext == lp_connect_start_bob \/ lp_connected_alice

SpecConfPair == ConfPairInit /\ [][ConfPairNext]_vars

BothSidesStarted ==
    /\ fnIn.kind = "conf_pair"
    /\ ConfPairSide("maker") # None
    /\ ConfPairSide("taker") # None

(***************************************************************************)
(* C37: when the TakerRequest and the MakerReserved both carry             *)
(* conf_settings, the maker's pair (my_conf_settings, other_conf_settings) *)
(* of lp_connect_start_bob equals the taker's pair (other_conf_settings,   *)
(* my_conf_settings) of lp_connected_alice.                                *)
(***************************************************************************)
C37_SameConfSettingsOnBothSides ==
    (/\ BothSidesStarted
     /\ IsSome(ConfPairRequest.conf_settings)
     /\ IsSome(ConfPairReservedReceived.conf_settings))
       => LET maker == Unwrap(ConfPairSide("maker"))
              taker == Unwrap(ConfPairSide("taker"))
          IN  /\ maker.version = "V2"
              /\ taker.version = "V2"
              /\ maker.my_conf_settings = taker.other_conf_settings
              /\ maker.other_conf_settings = taker.my_conf_settings

\* Both sides have started a swap for an order without conf_settings of its own, on
\* nodes whose coins are configured differently, and the negotiation lowered a setting.
C37_Witness ==
    /\ BothSidesStarted
    /\ fnIn.order_confs = None
    /\ fnIn.maker_node # fnIn.taker_node
    /\ fnIn.taker_req.action = "Sell"
    /\ Unwrap(ConfPairSide("maker")).version = "V2"
    /\ Unwrap(ConfPairSide("maker")).my_conf_settings
           = Unwrap(ConfPairSide("taker")).other_conf_settings
    /\ Unwrap(ConfPairSide("maker")).my_conf_settings.maker_coin_confs
           < fnIn.maker_node["A"].confs

(***************************************************************************)
(* The node's own TakerRequest comes back to it.                           *)
(*                                                                         *)
(* process_msg decodes the signed message and calls process_taker_request  *)
(* with the signer's pubkey, whoever the signer is.  Here the signer is    *)
(* the node itself: the message is one lp_auto_buy broadcast.              *)
(***************************************************************************)
OwnTakerRequests == {message \in DOMAIN broadcast : message.type = "TakerRequest"}

OwnTakerRequestDelivered ==
    \E message \in OwnTakerRequests : \E coins_found \in BOOLEAN :
        TakerRequestHandled(message, our_public_id, FALSE, coins_found)

SelfTradeNext ==
    \/ SetPrice
    \/ LpAutoBuy
    \/ OwnTakerRequestDelivered
    \/ ProcessTakerRequest
    \/ MatchTick

SpecSelfTrade == Init /\ [][SelfTradeNext]_vars

\* The matches of the node's maker orders whose request the given pubkey signed.
MatchesWith(sender_pubkey) ==
    {<<u, t>> \in AllMakerUuids \X (MatchTakerUuids \cup PeerTakerUuids) :
        /\ u \in DOMAIN my_maker_orders
        /\ t \in DOMAIN my_maker_orders[u].matches
        /\ my_maker_orders[u].matches[t].request.sender_pubkey = sender_pubkey}

(***************************************************************************)
(* C38: process_taker_request never reserves one of the node's own maker   *)
(* orders for a TakerRequest whose sender pubkey is the node's own public  *)
(* id: such a request creates no match and sends no MakerReserved.         *)
(***************************************************************************)
C38_NoSelfTrade ==
    /\ MatchesWith(our_public_id) = {}
    /\ \A message \in DOMAIN broadcast :
          message.type = "MakerReserved" => message.taker_order_uuid \notin MatchTakerUuids

\* the test process_taker_request does make: a request addressed to the node's own
\* pubkey is skipped; a request from the wire is addressed to nobody
RequestsFromTheWireHaveNoDest ==
    \A message \in OwnTakerRequests \cup PeerTakerRequests :
        TakerRequest_from_new_proto_and_pubkey(message, our_public_id).dest_pub_key
            = ZeroPubkey

(***************************************************************************)
(* Termination of sign_and_send_operation.                                 *)
(*                                                                         *)
(* The executor runs the call that holds COUNTER_LOCK and every RPC        *)
(* answers: weak fairness of the call's steps that do not fail.  Nothing   *)
(* is assumed of the ledger: it may include an injected operation, refuse  *)
(* it or leave it in the mempool.                                          *)
(***************************************************************************)
TezCallSteps ==
    \/ RpcCounter
    \/ RpcBlockHeader
    \/ RpcManagerKey
    \/ RpcForgeOperations
    \/ SignAndPreapply
    \/ RpcInjectOperation
    \/ RpcCounterAfterInject

\* no call returns an error in this step
RpcsAnswer ==
    \A c \in TezCallers :
        calls'[c].pc = "returned" /\ calls[c].pc # "returned" => calls'[c].result = "Ok"

SpecTezosLive == SpecTezos /\ WF_vars(TezCallSteps /\ RpcsAnswer)

(***************************************************************************)
(* C39: every call of sign_and_send_operation eventually returns and       *)
(* releases COUNTER_LOCK, also when the injected operation is never        *)
(* included or the account counter moves past the operation's counter.     *)
(***************************************************************************)
C39_SignAndSendReturns ==
    /\ \A c \in TezCallers : SignAndSendRuns(c) ~> calls[c].pc = "returned"
    /\ \A c \in TezCallers : counter_lock = Some(c) ~> counter_lock # Some(c)

\* up to the injection the call does end when its steps are taken
SignAndSendReachesTheLoop ==
    \A c \in TezCallers :
        SignAndSendRuns(c) ~> calls[c].pc \in {"returned", "wait_counter"}

\* once the account counter is past the operation's counter the loop's exit test
\* stays false
CounterNeverDecreases == [][chain'.counter >= chain.counter]_vars

(***************************************************************************)
(* One taker request delivered several times.                              *)
(*                                                                         *)
(* Every uuid stands for one request, so each further delivery of a uuid   *)
(* is a duplicate: t1 asks for the whole volume of an order, t2 for half   *)
(* of it.  my_maker_orders is iterated in one fixed order, that of the     *)
(* uuids, at every delivery.                                               *)
(***************************************************************************)
RepeatedTakerRequests ==
    {message \in PeerTakerRequests :
        /\ message.action = "Buy"
        /\ message.base_amount = (IF message.uuid = "t1" THEN MmInt(10) ELSE MmInt(5))}

\* The orders the filter and match_with_request let through.
MatchingOrders(taker_request) ==
    {u \in DOMAIN my_maker_orders :
        /\ can_match_with_uuid(taker_request, u)
        /\ match_with_request(my_maker_orders[u], taker_request).matched}

IterationOrder == <<"m1", "m2">>

MetFirst(uuids) ==
    IterationOrder[CHOOSE i \in DOMAIN IterationOrder :
                      /\ IterationOrder[i] \in uuids
                      /\ \A j \in 1..(i - 1) : IterationOrder[j] \notin uuids]

TakerRequestRedelivered ==
    \E message \in RepeatedTakerRequests : \E coins_found \in BOOLEAN :
        /\ TakerRequestHandled(message, "alice", FALSE, coins_found)
        /\ matchLog'.hit =>
              matchLog'.maker_order_uuid
                  = MetFirst(MatchingOrders(
                        TakerRequest_from_new_proto_and_pubkey(message, "alice")))

RedeliveryNext ==
    \/ SetPrice
    \/ TakerRequestRedelivered
    \/ MatchTick

SpecRedelivery == Init /\ [][RedeliveryNext]_vars

\* The maker orders that hold a match for the taker uuid, and the MakerReserved
\* messages broadcast for it.
OrdersMatchedWith(taker_uuid) ==
    {m \in DOMAIN my_maker_orders : taker_uuid \in DOMAIN my_maker_orders[m].matches}

ReservedSentFor(taker_uuid) ==
    SumCounts(broadcast, {msg \in DOMAIN broadcast :
                             /\ msg.type = "MakerReserved"
                             /\ msg.taker_order_uuid = taker_uuid})

AnsweredOnce(taker_uuid) ==
    /\ Cardinality(OrdersMatchedWith(taker_uuid)) <= 1
    /\ ReservedSentFor(taker_uuid) <= 1

(***************************************************************************)
(* C40: for any sequence of deliveries of the same TakerRequest uuid to a  *)
(* node with several matching maker orders, at most one of the node's      *)
(* maker orders ever holds a match for that taker uuid and at most one     *)
(* MakerReserved for it is broadcast.                                      *)
(***************************************************************************)
C40_OneReservationPerRequest == \A taker_uuid \in PeerTakerUuids : AnsweredOnce(taker_uuid)

====
